---- MODULE Spec2Model ----
(***************************************************************************)
(* domhome-cli: the Zigbee coordinator lifecycle, the device directory     *)
(* and the intent dispatch, as two stacks over one network controller:     *)
(*   - the service stack: ZigbeeService + ZigbeeDeviceService              *)
(*   - the CLI stack: ZigbeeCoordinator + DeviceRegistry + sendOnOff       *)
(* JavaScript runs one synchronous segment at a time: every action below   *)
(* is the code between two awaits of one call or one event handler.        *)
(***************************************************************************)
EXTENDS Integers, Sequences, FiniteSets, TLC

VARIABLES
    app,                \* which entry point runs: "service" or "cli"
    store,              \* ieee addresses in the network controller's database
    sessions,           \* sessions[c]: transport status of the c-th Controller created
    controller,         \* ZigbeeService.controller (0 = null)
    isStarted,          \* ZigbeeService.isStarted
    devices,            \* ZigbeeService.devices: ieeeAddr -> ZigbeeDevice
    permitJoinEnabled,  \* ZigbeeService.permitJoinEnabled
    cliController,      \* ZigbeeCoordinator.controller (0 = null)
    started,            \* ZigbeeCoordinator.started
    tasks,              \* the calls and handlers suspended at an await
    obs                 \* what the step just taken returned, emitted and sent

vars == <<app, store, sessions, controller, isStarted, devices, permitJoinEnabled,
          cliController, started, tasks, obs>>

svcVars == <<controller, isStarted, devices, permitJoinEnabled>>
cliVars == <<cliController, started>>

----------------------------------------------------------------------------
(* Bounds *)

\* Controller instances created over a run
MaxSessions == 2
\* calls and handlers suspended at an await at the same time
MaxTasks == 2
\* light intents in flight at the same time
MaxCalls == 1

----------------------------------------------------------------------------
(* The network: devices the radio can see, and what the catalog says *)

Coordinator == "c0"
Ieee == {"c0", "plug", "bulb", "sens", "half", "combo", "remote"}
\* database iteration order of Controller.getDevices()
DbOrder == <<"c0", "plug", "bulb", "sens", "half", "combo", "remote">>

CLUSTER_ON_OFF == 6

\* Device.type of the herdsman record
HerdsmanType(d) ==
    CASE d = "c0"   -> "Coordinator"
      [] d = "sens" -> "EndDevice"
      [] OTHER      -> "Router"

\* Device.endpoints: "plug" accepts On/Off on endpoint 1; "bulb" only sends
\* On/Off from endpoint 1 and accepts it on endpoint 2; "sens" has an endpoint
\* without the cluster; "half" is a plug whose interview has not completed;
\* "combo" is a relay with a dimmer; "remote" is a wall switch that only sends
\* On/Off; the coordinator record has none of interest.
HerdsmanEndpoints(d) ==
    CASE d \in {"plug", "half"}
                    -> << [ID |-> 1, inputClusters |-> {0, 6}, outputClusters |-> {}] >>
      [] d = "combo" -> << [ID |-> 1, inputClusters |-> {0, 6, 8}, outputClusters |-> {}] >>
      [] d = "bulb" -> << [ID |-> 1, inputClusters |-> {0}, outputClusters |-> {6}],
                          [ID |-> 2, inputClusters |-> {6, 8, 768}, outputClusters |-> {}] >>
      [] d = "sens" -> << [ID |-> 3, inputClusters |-> {0, 1026}, outputClusters |-> {}] >>
      [] d = "remote"
                    -> << [ID |-> 1, inputClusters |-> {0}, outputClusters |-> {6}] >>
      [] OTHER      -> << >>

\* Device.interviewState === 'SUCCESSFUL'
HerdsmanInterviewed(d) == d \in {"c0", "plug", "bulb", "combo"}

\* zhc.findByDevice: the catalog definition of a device, or none.
\* toZigbee: the converters in order, each with its keys and whether it has a
\* convertSet; exposes: the control surfaces in order.
Tz(key) == [key |-> key, convertSet |-> TRUE]
NoDefinition == [found |-> FALSE, toZigbee |-> << >>, exposes |-> << >>]
FindByDevice(d) ==
    CASE d \in {"plug", "half"}
                    -> [found |-> TRUE,
                        toZigbee |-> << Tz({"state"}) >>,
                        exposes |-> << [type |-> "switch", name |-> ""],
                                       [type |-> "numeric", name |-> "power"] >>]
      [] d = "bulb" -> [found |-> TRUE,
                        toZigbee |-> << Tz({"state", "brightness"}), Tz({"color_temp"}),
                                     Tz({"color"}) >>,
                        exposes |-> << [type |-> "light", name |-> ""] >>]
      [] d = "combo" -> [found |-> TRUE,
                         toZigbee |-> << Tz({"state", "brightness"}) >>,
                         exposes |-> << [type |-> "switch", name |-> ""],
                                        [type |-> "light", name |-> ""] >>]
      [] OTHER      -> NoDefinition

----------------------------------------------------------------------------
(* Values *)

\* an option the caller left out ("=== undefined")
Undefined == -1

\* LightControlOptions['color']: present is false for no color object; hex is
\* "" when absent (the code cannot tell the two apart); rgb: an {r, g, b} given
NoColor == [present |-> FALSE, hex |-> "", rgb |-> FALSE, hue |-> Undefined,
            saturation |-> Undefined]

\* Partial<LightControlOptions>
NoOptions == [brightness |-> Undefined, color_temp |-> Undefined, color |-> NoColor]

\* the outcome of a call: what it returned or threw.
\*   name: the error class; msg: the message that tells errors of a class apart
\*   running: isStarted / started when the call was made
\*   cmds: low-level commands and reads the call issued; wrote: it wrote the cache
\*   opts: the options the call was made with
NoRet == [op |-> "none", dev |-> "", cmd |-> "", threw |-> FALSE, name |-> "",
          msg |-> "", running |-> FALSE, cmds |-> 0, wrote |-> FALSE, list |-> {},
          opts |-> NoOptions, result |-> << >>, answers |-> << >>, cause |-> {}]

\* a suspended call or handler
\*   ctrl: the Controller the pending low-level call was made on
\*   cmd, sval, val, flag: the arguments; rest: the devices still to load, or
\*   the sub-calls still to make; opts: the options of a light intent
\*   acc: the state a read has collected; answers: what its reads were answered
NoTask == [op |-> "", pc |-> "", ctrl |-> 0, dev |-> "", cmd |-> "", sval |-> "",
           val |-> 0, flag |-> FALSE, rest |-> << >>, running |-> FALSE,
           cmds |-> 0, wrote |-> FALSE, opts |-> NoOptions, acc |-> << >>,
           answers |-> << >>]

\* the call of task t returns msg / throws name(msg)
Returns(t, msg) ==
    [NoRet EXCEPT !.op = t.op, !.dev = t.dev, !.cmd = t.cmd, !.msg = msg,
                  !.running = t.running, !.cmds = t.cmds, !.wrote = t.wrote,
                  !.opts = t.opts, !.result = t.acc, !.answers = t.answers]
Throws(t, name, msg) ==
    [Returns(t, msg) EXCEPT !.threw = TRUE, !.name = name]

\* a low-level call made on Controller c
LowLevel(kind, c, dev, ep, cmd, sval, val) ==
    [kind |-> kind, ctrl |-> c, dev |-> dev, ep |-> ep, cmd |-> cmd, sval |-> sval,
     val |-> val]

\* no ZigbeeDevice
NoDevice == [ieeeAddr |-> "", type |-> "", interviewCompleted |-> FALSE, state |-> << >>]

\* a domain event handed to EventEmitter2.emit
\*   device: the ZigbeeDevice of the payload; status: the interview status
Event(name, dev, flag, val, state) ==
    [name |-> name, dev |-> dev, flag |-> flag, val |-> val, state |-> state,
     status |-> "", device |-> NoDevice]

\* a domain event whose payload carries a ZigbeeDevice
DeviceEvent(name, device, status) ==
    [Event(name, device.ieeeAddr, FALSE, 0, device.state)
        EXCEPT !.device = device, !.status = status]

Min(a, b) == IF a < b THEN a ELSE b
Max(a, b) == IF a > b THEN a ELSE b

Quiet == [ret |-> NoRet, emitted |-> << >>, sent |-> << >>]
Obs(ret, emitted, sent) == [ret |-> ret, emitted |-> emitted, sent |-> sent]

CanSuspend == Cardinality(tasks) < MaxTasks

\* new Controller(...): the next instance
NewController == Len(sessions) + 1

----------------------------------------------------------------------------
(* ZigbeeService: directory *)

EmptyState == << >>

\* determineDeviceType: first expose that decides wins
RECURSIVE TypeFromExposes(_)
TypeFromExposes(exposes) ==
    IF exposes = << >> THEN "unknown"
    ELSE LET e == Head(exposes) IN
         IF e.type = "light" THEN "light"
         ELSE IF e.type = "switch" THEN "plug"
         ELSE IF e.name = "power" THEN "plug"
         ELSE TypeFromExposes(Tail(exposes))

determineDeviceType(d) ==
    LET definition == FindByDevice(d) IN
    IF ~definition.found THEN "unknown" ELSE TypeFromExposes(definition.exposes)

\* mapDevice: a fresh ZigbeeDevice, its state always {}
mapDevice(d) ==
    [ieeeAddr |-> d, type |-> determineDeviceType(d),
     interviewCompleted |-> HerdsmanInterviewed(d), state |-> EmptyState]

\* Map.set
MapSet(m, k, v) == [x \in DOMAIN m \cup {k} |-> IF x = k THEN v ELSE m[x]]

\* a load that takes every record of the database
LoadListMutant == SelectSeq(DbOrder, LAMBDA d : d \in store)
\* this.controller.getDevices() minus the coordinator, in database order
LoadList == SelectSeq(DbOrder, LAMBDA d : d \in store /\ HerdsmanType(d) # "Coordinator")

----------------------------------------------------------------------------
(* ZigbeeService.start *)

\* start(): "if (this.isStarted) return"
SvcStartGuardMutant == FALSE
SvcStartGuard == isStarted

\* start() up to its first await: the guard, new Controller,
\* setupEventListeners, controller.start()
SvcStart ==
    /\ app = "service"
    /\ LET t == [NoTask EXCEPT !.op = "start", !.pc = "awaitStart",
                               !.ctrl = NewController, !.running = isStarted] IN
       IF SvcStartGuard
       THEN /\ obs' = Obs(Returns(t, "already-started"), << >>, << >>)
            /\ UNCHANGED <<sessions, controller, tasks>>
       ELSE /\ CanSuspend
            /\ Len(sessions) < MaxSessions
            /\ controller' = NewController
            /\ sessions' = Append(sessions, "starting")
            /\ tasks' = tasks \cup {t}
            /\ obs' = Obs(NoRet, << >>, << LowLevel("start", NewController, "", 0, "", "", 0) >>)
    /\ UNCHANGED <<app, store, isStarted, devices, permitJoinEnabled, cliVars>>

\* controller.start() resolved: isStarted = true, then loadExistingDevices
\* reads this.controller.getDevices() and suspends on the first mapDevice
SvcStartResolved(t) ==
    /\ t \in tasks /\ t.op = "start" /\ t.pc = "awaitStart"
    /\ app = "service"
    /\ sessions[t.ctrl] = "starting"
    /\ sessions' = [sessions EXCEPT ![t.ctrl] = "running"]
    /\ isStarted' = TRUE
    /\ tasks' = (tasks \ {t}) \cup {[t EXCEPT !.pc = "load", !.rest = LoadList]}
    /\ obs' = Quiet
    /\ UNCHANGED <<app, store, controller, devices, permitJoinEnabled, cliVars>>

\* what the message of a failed controller.start() matches: one marker per
\* group of patterns the CLI's start() looks for
\*   ENOENT: "ENOENT" | "no such file";  EACCES: "EACCES" | "Permission denied";
\*   EBUSY: "EBUSY" | "resource busy";   RSTACK: "HOST_FATAL_ERROR" |
\*   "Failure to connect" | "RSTACK" | "Bootloader" | "EZSP could not connect"
FailureMarkers == {"ENOENT", "EACCES", "EBUSY", "RSTACK"}
StartFailures == SUBSET FailureMarkers

\* controller.start() rejected with an error matching `failure`: the catch
\* block logs and rethrows the error as it is
SvcStartFailed(t, failure) ==
    /\ t \in tasks /\ t.op = "start" /\ t.pc = "awaitStart"
    /\ app = "service"
    /\ sessions[t.ctrl] = "starting"
    /\ sessions' = [sessions EXCEPT ![t.ctrl] = "failed"]
    /\ tasks' = tasks \ {t}
    /\ obs' = Obs([Throws(t, "Error", "transport") EXCEPT !.cause = failure], << >>, << >>)
    /\ UNCHANGED <<app, store, controller, isStarted, devices, permitJoinEnabled, cliVars>>

\* controller.start() rejected with an error that matches no pattern
SvcStartRejected(t) == SvcStartFailed(t, {})

\* loadExistingDevices: one mapDevice resolved, the device is set, and the loop
\* either suspends on the next mapDevice or start() returns
SvcLoadStep(t) ==
    /\ t \in tasks /\ t.op = "start" /\ t.pc = "load" /\ t.rest # << >>
    /\ devices' = MapSet(devices, Head(t.rest), mapDevice(Head(t.rest)))
    /\ IF Tail(t.rest) = << >>
       THEN /\ tasks' = tasks \ {t}
            /\ obs' = Obs(Returns(t, "started"), << >>, << >>)
       ELSE /\ tasks' = (tasks \ {t}) \cup {[t EXCEPT !.rest = Tail(t.rest)]}
            /\ obs' = Quiet
    /\ UNCHANGED <<app, store, sessions, controller, isStarted, permitJoinEnabled, cliVars>>

\* loadExistingDevices found nothing to load: start() returns
SvcStartFinish(t) ==
    /\ t \in tasks /\ t.op = "start" /\ t.pc = "load" /\ t.rest = << >>
    /\ tasks' = tasks \ {t}
    /\ obs' = Obs(Returns(t, "started"), << >>, << >>)
    /\ UNCHANGED <<app, store, sessions, svcVars, cliVars>>

----------------------------------------------------------------------------
(* ZigbeeService.stop *)

\* stop(): "if (!this.controller || !this.isStarted) return", else controller.stop()
SvcStop ==
    /\ app = "service"
    /\ LET t == [NoTask EXCEPT !.op = "stop", !.pc = "awaitStop",
                               !.ctrl = controller, !.running = isStarted] IN
       IF controller = 0 \/ ~isStarted
       THEN /\ obs' = Obs(Returns(t, "not-started"), << >>, << >>)
            /\ UNCHANGED tasks
       ELSE /\ CanSuspend /\ t \notin tasks
            /\ tasks' = tasks \cup {t}
            /\ obs' = Obs(NoRet, << >>, << LowLevel("stop", controller, "", 0, "", "", 0) >>)
    /\ UNCHANGED <<app, store, sessions, svcVars, cliVars>>

\* controller.stop() resolved: isStarted = false, devices.clear()
SvcStopResolved(t) ==
    /\ t \in tasks /\ t.op = "stop" /\ t.pc = "awaitStop"
    /\ app = "service"
    /\ sessions[t.ctrl] \in {"running", "disconnected"}
    /\ sessions' = [sessions EXCEPT ![t.ctrl] = "stopped"]
    /\ isStarted' = FALSE
    /\ devices' = << >>
    /\ tasks' = tasks \ {t}
    /\ obs' = Obs(Returns(t, "stopped"), << >>, << >>)
    /\ UNCHANGED <<app, store, controller, permitJoinEnabled, cliVars>>

\* a stop() that clears the service whether or not controller.stop() succeeded
SvcStopRejectedMutant(t) ==
    /\ t \in tasks /\ t.op = "stop" /\ t.pc = "awaitStop"
    /\ app = "service"
    /\ isStarted' = FALSE
    /\ devices' = << >>
    /\ tasks' = tasks \ {t}
    /\ obs' = Obs(Throws(t, "Error", "transport"), << >>, << >>)
    /\ UNCHANGED <<app, store, sessions, controller, permitJoinEnabled, cliVars>>
\* controller.stop() rejected: the catch block logs and rethrows
SvcStopRejected(t) ==
    /\ t \in tasks /\ t.op = "stop" /\ t.pc = "awaitStop"
    /\ app = "service"
    /\ tasks' = tasks \ {t}
    /\ obs' = Obs(Throws(t, "Error", "transport"), << >>, << >>)
    /\ UNCHANGED <<app, store, sessions, svcVars, cliVars>>

----------------------------------------------------------------------------
(* ZigbeeService.permitJoin *)

\* "timeout = 254"
DefaultTimeout == 254
\* what callers ask for: permitJoin(true, 60), permitJoin(true, 300), permitJoin(false)
PermitJoinCalls == {<<TRUE, 60>>, <<TRUE, 300>>, <<FALSE, DefaultTimeout>>}

\* the duration handed to controller.permitJoin
SvcPermitJoinTime(permit, timeout) == IF permit THEN timeout ELSE 0

\* permitJoin: "if (!this.controller || !this.isStarted) throw"
SvcPermitJoinMutant == controller = 0
SvcPermitJoinGuard == controller = 0 \/ ~isStarted

\* permitJoin(permit, timeout) up to its await
SvcPermitJoin(permit, timeout) ==
    /\ app = "service"
    /\ LET t == [NoTask EXCEPT !.op = "permitJoin", !.pc = "awaitPermit",
                               !.ctrl = controller, !.flag = permit, !.val = timeout,
                               !.running = isStarted] IN
       IF SvcPermitJoinGuard
       THEN /\ obs' = Obs(Throws(t, "Error", "pas demarre"), << >>, << >>)
            /\ UNCHANGED tasks
       ELSE /\ CanSuspend /\ [t EXCEPT !.cmds = 1] \notin tasks
            /\ tasks' = tasks \cup {[t EXCEPT !.cmds = 1]}
            /\ obs' = Obs(NoRet, << >>,
                          << LowLevel("permitJoin", controller, "", 0, "", "",
                                      SvcPermitJoinTime(permit, timeout)) >>)
    /\ UNCHANGED <<app, store, sessions, svcVars, cliVars>>

\* controller.permitJoin resolved: the flag is set and the event emitted
SvcPermitJoinResolved(t) ==
    /\ t \in tasks /\ t.op = "permitJoin" /\ t.pc = "awaitPermit"
    /\ app = "service"
    /\ sessions[t.ctrl] = "running"
    /\ permitJoinEnabled' = t.flag
    /\ tasks' = tasks \ {t}
    /\ obs' = Obs(Returns(t, "ok"),
                  << Event("PERMIT_JOIN_CHANGED", "", t.flag,
                           IF t.flag THEN t.val ELSE 0, EmptyState) >>, << >>)
    /\ UNCHANGED <<app, store, sessions, controller, isStarted, devices, cliVars>>

\* a permitJoin that records the flag before the controller answered
SvcPermitJoinRejectedMutant(t) ==
    /\ t \in tasks /\ t.op = "permitJoin" /\ t.pc = "awaitPermit"
    /\ app = "service"
    /\ tasks' = tasks \ {t}
    /\ permitJoinEnabled' = t.flag
    /\ obs' = Obs(Throws(t, "Error", "transport"), << >>, << >>)
    /\ UNCHANGED <<app, store, sessions, controller, isStarted, devices, cliVars>>
\* controller.permitJoin rejected: the error propagates
SvcPermitJoinRejected(t) ==
    /\ t \in tasks /\ t.op = "permitJoin" /\ t.pc = "awaitPermit"
    /\ app = "service"
    /\ tasks' = tasks \ {t}
    /\ obs' = Obs(Throws(t, "Error", "transport"), << >>, << >>)
    /\ UNCHANGED <<app, store, sessions, svcVars, cliVars>>

\* isPermitJoinEnabled(): the flag
SvcIsPermitJoinEnabled ==
    /\ app = "service"
    /\ obs' = Obs([NoRet EXCEPT !.op = "isPermitJoinEnabled", !.running = isStarted,
                                !.msg = IF permitJoinEnabled THEN "true" ELSE "false"],
                  << >>, << >>)
    /\ UNCHANGED <<app, store, sessions, svcVars, cliVars, tasks>>

\* the pairing window of Controller c ran out: the controller's
\* 'permitJoinChanged' has no listener in setupEventListeners
SvcPermitJoinExpired(c) ==
    /\ app = "service"
    /\ c \in DOMAIN sessions /\ sessions[c] = "running"
    /\ obs' = Quiet
    /\ UNCHANGED <<app, store, sessions, svcVars, cliVars, tasks>>

----------------------------------------------------------------------------
(* ZigbeeCoordinator (CLI stack) *)

\* assertRunning: "if (!this.started || !this.controller) throw"
CliRunning == started /\ cliController # 0

\* start() up to its await: the guard, createController, registerEvents,
\* controller.start()
CliStart ==
    /\ app = "cli"
    /\ LET t == [NoTask EXCEPT !.op = "start", !.pc = "awaitStart",
                               !.ctrl = NewController, !.running = started] IN
       IF started
       THEN /\ obs' = Obs(Returns(t, "already-started"), << >>, << >>)
            /\ UNCHANGED <<sessions, cliController, tasks>>
       ELSE /\ CanSuspend
            /\ Len(sessions) < MaxSessions
            /\ cliController' = NewController
            /\ sessions' = Append(sessions, "starting")
            /\ tasks' = tasks \cup {t}
            /\ obs' = Obs(NoRet, << >>, << LowLevel("start", NewController, "", 0, "", "", 0) >>)
    /\ UNCHANGED <<app, store, svcVars, started>>

\* controller.start() resolved: started = true, the result is returned
CliStartResolved(t) ==
    /\ t \in tasks /\ t.op = "start" /\ t.pc = "awaitStart"
    /\ app = "cli"
    /\ sessions[t.ctrl] = "starting"
    /\ sessions' = [sessions EXCEPT ![t.ctrl] = "running"]
    /\ started' = TRUE
    /\ tasks' = tasks \ {t}
    /\ obs' = Obs(Returns(t, "started"), << >>, << >>)
    /\ UNCHANGED <<app, store, svcVars, cliController>>

\* the chain of "if (msg.includes(...)) throw new CoordinatorError(...)" of start()
StartHint(failure) ==
    IF "ENOENT" \in failure THEN "port not found"
    ELSE IF "EACCES" \in failure THEN "permission denied"
    ELSE IF "EBUSY" \in failure THEN "port busy"
    ELSE IF "RSTACK" \in failure THEN "dongle never responded"
    ELSE "start failed"

\* controller.start() rejected with an error matching `failure`: started =
\* false, controller = null, and one CoordinatorError is thrown
CliStartFailed(t, failure) ==
    /\ t \in tasks /\ t.op = "start" /\ t.pc = "awaitStart"
    /\ app = "cli"
    /\ sessions[t.ctrl] = "starting"
    /\ sessions' = [sessions EXCEPT ![t.ctrl] = "failed"]
    /\ started' = FALSE
    /\ cliController' = 0
    /\ tasks' = tasks \ {t}
    /\ obs' = Obs([Throws(t, "CoordinatorError", StartHint(failure)) EXCEPT !.cause = failure],
                  << >>, << >>)
    /\ UNCHANGED <<app, store, svcVars>>

\* controller.start() rejected with an error that matches no pattern
CliStartRejected(t) == CliStartFailed(t, {})

\* stop(): "if (!this.started || !this.controller) return", else controller.stop()
CliStop ==
    /\ app = "cli"
    /\ LET t == [NoTask EXCEPT !.op = "stop", !.pc = "awaitStop",
                               !.ctrl = cliController, !.running = started] IN
       IF ~CliRunning
       THEN /\ obs' = Obs(Returns(t, "not-running"), << >>, << >>)
            /\ UNCHANGED tasks
       ELSE /\ CanSuspend /\ t \notin tasks
            /\ tasks' = tasks \cup {t}
            /\ obs' = Obs(NoRet, << >>, << LowLevel("stop", cliController, "", 0, "", "", 0) >>)
    /\ UNCHANGED <<app, store, sessions, svcVars, cliVars>>

\* a stop() without its finally block: a failed controller.stop() is thrown on
CliStopSettledMutant(t, resolved) ==
    /\ t \in tasks /\ t.op = "stop" /\ t.pc = "awaitStop"
    /\ app = "cli"
    /\ IF resolved
       THEN /\ sessions[t.ctrl] \in {"running", "disconnected"}
            /\ sessions' = [sessions EXCEPT ![t.ctrl] = "stopped"]
            /\ started' = FALSE
            /\ cliController' = 0
       ELSE UNCHANGED <<sessions, started, cliController>>
    /\ tasks' = tasks \ {t}
    /\ obs' = Obs(IF resolved THEN Returns(t, "stopped") ELSE Throws(t, "Error", "transport"),
                  << >>, << >>)
    /\ UNCHANGED <<app, store, svcVars>>
\* controller.stop() settled either way: the finally block clears the handle
CliStopSettled(t, resolved) ==
    /\ t \in tasks /\ t.op = "stop" /\ t.pc = "awaitStop"
    /\ app = "cli"
    /\ IF resolved
       THEN /\ sessions[t.ctrl] \in {"running", "disconnected"}
            /\ sessions' = [sessions EXCEPT ![t.ctrl] = "stopped"]
       ELSE UNCHANGED sessions
    /\ started' = FALSE
    /\ cliController' = 0
    /\ tasks' = tasks \ {t}
    /\ obs' = Obs(Returns(t, IF resolved THEN "stopped" ELSE "stop-error-logged"),
                  << >>, << >>)
    /\ UNCHANGED <<app, store, svcVars>>

\* "Math.min(Math.max(seconds, 1), 254)"
CliPermitJoinTime(seconds) == Min(Max(seconds, 1), 254)

\* the durations the CLI is asked for
CliSeconds == {0, 60, 300}

\* permitJoin(seconds) up to its await
CliPermitJoin(seconds) ==
    /\ app = "cli"
    /\ LET t == [NoTask EXCEPT !.op = "permitJoin", !.pc = "awaitPermit",
                               !.ctrl = cliController, !.flag = TRUE, !.val = seconds,
                               !.running = started] IN
       IF ~CliRunning
       THEN /\ obs' = Obs(Throws(t, "CoordinatorError", "not running"), << >>, << >>)
            /\ UNCHANGED tasks
       ELSE /\ CanSuspend /\ [t EXCEPT !.cmds = 1] \notin tasks
            /\ tasks' = tasks \cup {[t EXCEPT !.cmds = 1]}
            /\ obs' = Obs(NoRet, << >>,
                          << LowLevel("permitJoin", cliController, "", 0, "", "",
                                      CliPermitJoinTime(seconds)) >>)
    /\ UNCHANGED <<app, store, sessions, svcVars, cliVars>>

\* disableJoin() up to its await
CliDisableJoin ==
    /\ app = "cli"
    /\ LET t == [NoTask EXCEPT !.op = "disableJoin", !.pc = "awaitPermit",
                               !.ctrl = cliController, !.running = started] IN
       IF ~CliRunning
       THEN /\ obs' = Obs(Throws(t, "CoordinatorError", "not running"), << >>, << >>)
            /\ UNCHANGED tasks
       ELSE /\ CanSuspend /\ [t EXCEPT !.cmds = 1] \notin tasks
            /\ tasks' = tasks \cup {[t EXCEPT !.cmds = 1]}
            /\ obs' = Obs(NoRet, << >>,
                          << LowLevel("permitJoin", cliController, "", 0, "", "", 0) >>)
    /\ UNCHANGED <<app, store, sessions, svcVars, cliVars>>

\* controller.permitJoin settled: permitJoin / disableJoin returns or the
\* error propagates
CliPermitJoinSettled(t, resolved) ==
    /\ t \in tasks /\ t.op \in {"permitJoin", "disableJoin"} /\ t.pc = "awaitPermit"
    /\ app = "cli"
    /\ resolved => sessions[t.ctrl] = "running"
    /\ tasks' = tasks \ {t}
    /\ obs' = Obs(IF resolved THEN Returns(t, "ok") ELSE Throws(t, "Error", "transport"),
                  << >>, << >>)
    /\ UNCHANGED <<app, store, sessions, svcVars, cliVars>>

----------------------------------------------------------------------------
(* ZigbeeService: queries and the state cache *)

\* getHerdsmanDevice: "if (!this.controller) return undefined", else the
\* controller's record of the address, if it has one
SvcHasHerdsmanDevice(d) == controller # 0 /\ d \in store

\* getDevices(): the directory's values
SvcGetDevices ==
    /\ app = "service"
    /\ obs' = Obs([NoRet EXCEPT !.op = "getDevices", !.running = isStarted,
                                !.list = DOMAIN devices], << >>, << >>)
    /\ UNCHANGED <<app, store, sessions, svcVars, cliVars, tasks>>

\* getDevice(ieeeAddr): the entry or undefined
SvcGetDevice(d) ==
    /\ app = "service"
    /\ obs' = Obs([NoRet EXCEPT !.op = "getDevice", !.dev = d, !.running = isStarted,
                                !.msg = IF d \in DOMAIN devices THEN "device" ELSE "undefined",
                                !.list = DOMAIN devices \cap {d}], << >>, << >>)
    /\ UNCHANGED <<app, store, sessions, svcVars, cliVars, tasks>>

\* an update that replaces the cached state by the partial one
OverlayMutant(old, new) == new
\* "{ ...device.state, ...state }"
Overlay(old, new) ==
    [a \in DOMAIN old \cup DOMAIN new |-> IF a \in DOMAIN new THEN new[a] ELSE old[a]]

\* updateDeviceState: the directory after the merge (unchanged for an unknown device)
updateDeviceState(d, state) ==
    IF d \in DOMAIN devices
    THEN [devices EXCEPT ![d].state = Overlay(devices[d].state, state)]
    ELSE devices

\* an event that carries the partial state it was called with
StateChangeEventsMutant(d, state) ==
    IF d \in DOMAIN devices
    THEN << Event("STATE_CHANGE", d, FALSE, 0, state) >>
    ELSE << >>
\* updateDeviceState: the STATE_CHANGE event it emits, if any
StateChangeEvents(d, state) ==
    IF d \in DOMAIN devices
    THEN << Event("STATE_CHANGE", d, FALSE, 0, Overlay(devices[d].state, state)) >>
    ELSE << >>

----------------------------------------------------------------------------
(* ZigbeeDeviceService.sendCommand and the intents built on it *)

\* a setBrightness that scales and clamps to the top only
Brightness254Mutant(percent) == Min(254, (percent * 254 + 50) \div 100)
\* "Math.round((brightness / 100) * 254)" then "Math.max(0, Math.min(254, ...))"
Brightness254(percent) == Max(0, Min(254, (percent * 254 + 50) \div 100))

\* a conversion that truncates the quotient
MiredsTruncMutant(colorTemp) ==
    IF colorTemp > 500 THEN 1000000 \div colorTemp ELSE colorTemp
\* a conversion that takes 500 for a temperature in Kelvin
MiredsThresholdMutant(colorTemp) ==
    IF colorTemp >= 500 THEN (2000000 + colorTemp) \div (2 * colorTemp) ELSE colorTemp
\* "colorTemp > 500 ? Math.round(1000000 / colorTemp) : colorTemp"
Mireds(colorTemp) ==
    IF colorTemp > 500 THEN (2000000 + colorTemp) \div (2 * colorTemp) ELSE colorTemp

\* "herdsmanDevice.getEndpoint(1) || herdsmanDevice.endpoints[0]": its ID, 0 for none
RECURSIVE HasEndpointID(_, _)
HasEndpointID(eps, id) ==
    IF eps = << >> THEN FALSE
    ELSE Head(eps).ID = id \/ HasEndpointID(Tail(eps), id)

DefaultEndpoint(d) ==
    LET eps == HerdsmanEndpoints(d) IN
    IF HasEndpointID(eps, 1) THEN 1
    ELSE IF eps # << >> THEN eps[1].ID
    ELSE 0

\* "definition.toZigbee?.find((c) => c.key?.includes(command))": its index, 0 for none
RECURSIVE FindConverter(_, _, _)
FindConverter(toZigbee, command, i) ==
    IF i > Len(toZigbee) THEN 0
    ELSE IF command \in toZigbee[i].key THEN i
    ELSE FindConverter(toZigbee, command, i + 1)

\* the state a converter reports back for a command it carried out
ConvertedState(cmd, sval, val) ==
    IF cmd \in {"state", "color"} THEN [a \in {cmd} |-> sval] ELSE [a \in {cmd} |-> val]

\* sendCommand up to "await getDeviceDefinition"
SvcSendCommand(d, cmd, sval, val) ==
    /\ app = "service"
    /\ LET t == [NoTask EXCEPT !.op = "sendCommand", !.pc = "awaitDefinition",
                               !.ctrl = controller, !.dev = d, !.cmd = cmd,
                               !.sval = sval, !.val = val, !.running = isStarted] IN
       IF ~SvcHasHerdsmanDevice(d)
       THEN /\ obs' = Obs(Throws(t, "Error", "Appareil non trouve"), << >>, << >>)
            /\ UNCHANGED tasks
       ELSE /\ CanSuspend /\ t \notin tasks
            /\ tasks' = tasks \cup {t}
            /\ obs' = Quiet
    /\ UNCHANGED <<app, store, sessions, svcVars, cliVars>>

\* sendCommand from the definition to "await converter.convertSet?.(...)"
SvcSendCommandConvert(t) ==
    /\ t \in tasks /\ t.op = "sendCommand" /\ t.pc = "awaitDefinition"
    /\ app = "service"
    /\ LET definition == FindByDevice(t.dev)
           endpoint   == DefaultEndpoint(t.dev)
           i          == FindConverter(definition.toZigbee, t.cmd, 1)
       IN
       IF ~definition.found
       THEN /\ tasks' = tasks \ {t}
            /\ obs' = Obs(Throws(t, "Error", "Definition non trouvee"), << >>, << >>)
       ELSE IF endpoint = 0
       THEN /\ tasks' = tasks \ {t}
            /\ obs' = Obs(Throws(t, "Error", "Endpoint non trouve"), << >>, << >>)
       ELSE IF i = 0
       THEN /\ tasks' = tasks \ {t}
            /\ obs' = Obs(Throws(t, "Error", "Convertisseur non trouve"), << >>, << >>)
       ELSE IF ~definition.toZigbee[i].convertSet
       THEN /\ tasks' = tasks \ {t}
            /\ obs' = Obs(Returns(t, "ok"), << >>, << >>)
       ELSE /\ tasks' = (tasks \ {t}) \cup {[t EXCEPT !.pc = "awaitConvert", !.cmds = 1]}
            /\ obs' = Obs(NoRet, << >>,
                          << LowLevel("command", t.ctrl, t.dev, endpoint, t.cmd,
                                      t.sval, t.val) >>)
    /\ UNCHANGED <<app, store, sessions, svcVars, cliVars>>

\* convertSet resolved: "if (result?.state) updateDeviceState(...)".
\* A toggle has no state to report, since meta.state is always {}.
SvcSendCommandResolved(t, hasState) ==
    /\ t \in tasks /\ t.op = "sendCommand" /\ t.pc = "awaitConvert"
    /\ app = "service"
    /\ sessions[t.ctrl] = "running"
    /\ t.sval = "TOGGLE" => ~hasState
    /\ LET state == ConvertedState(t.cmd, t.sval, t.val)
           wrote == hasState /\ t.dev \in DOMAIN devices
       IN
       /\ devices' = IF hasState THEN updateDeviceState(t.dev, state) ELSE devices
       /\ obs' = Obs(Returns([t EXCEPT !.wrote = wrote], "ok"),
                     IF hasState THEN StateChangeEvents(t.dev, state) ELSE << >>, << >>)
    /\ tasks' = tasks \ {t}
    /\ UNCHANGED <<app, store, sessions, controller, isStarted, permitJoinEnabled, cliVars>>

\* the errors a low-level command is rejected with
TransportErrors == {"transport", "timeout"}

\* a sendCommand that answers a rejection by sending the command again
SvcSendCommandFailedMutant(t, error) ==
    /\ t \in tasks /\ t.op = "sendCommand" /\ t.pc = "awaitConvert"
    /\ app = "service" /\ t.cmds < 2
    /\ tasks' = (tasks \ {t}) \cup {[t EXCEPT !.cmds = t.cmds + 1]}
    /\ obs' = Obs(NoRet, << >>,
                  << LowLevel("command", t.ctrl, t.dev, DefaultEndpoint(t.dev), t.cmd,
                              t.sval, t.val) >>)
    /\ UNCHANGED <<app, store, sessions, svcVars, cliVars>>
\* convertSet rejected with `error`: the catch block logs and rethrows it
SvcSendCommandFailed(t, error) ==
    /\ t \in tasks /\ t.op = "sendCommand" /\ t.pc = "awaitConvert"
    /\ app = "service"
    /\ tasks' = tasks \ {t}
    /\ obs' = Obs([Throws(t, "Error", error) EXCEPT !.cause = {error}], << >>, << >>)
    /\ UNCHANGED <<app, store, sessions, svcVars, cliVars>>

\* convertSet rejected
SvcSendCommandRejected(t) == SvcSendCommandFailed(t, "transport")

\* the intents callers dispatch: turnOn, setBrightness(80)
SvcIntents == {<<"state", "ON", 0>>, <<"brightness", "", Brightness254(80)>>}
\* turnOn / turnOff / toggle: sendCommand(ieeeAddr, 'state', ...)
OnOffIntents == {<<"state", "ON", 0>>, <<"state", "OFF", 0>>, <<"state", "TOGGLE", 0>>}
\* the addresses callers name: two paired devices and one that never joined
Targets == {"plug", "sens", "0xdead"}

----------------------------------------------------------------------------
(* ZigbeeDeviceService: turnOnLight and setColor *)

\* a setColor that looks at the RGB triple first
ColorPayloadMutant(color) ==
    IF color.rgb THEN "rgb"
    ELSE IF color.hex # "" THEN "hex"
    ELSE IF color.hue # Undefined /\ color.saturation # Undefined THEN "hue_saturation"
    ELSE ""
\* setColor: the key of the payload it forwards, "" when it forwards none:
\* "if (color.hex) ... else if (color.rgb) ... else if (hue and saturation defined)"
ColorPayload(color) ==
    IF color.hex # "" THEN "hex"
    ELSE IF color.rgb THEN "rgb"
    ELSE IF color.hue # Undefined /\ color.saturation # Undefined THEN "hue_saturation"
    ELSE ""

\* a turnOnLight that sets the color temperature before the brightness
TurnOnLightCallsMutant(options) ==
    << "state" >>
    \o (IF options.color_temp # Undefined THEN << "color_temp" >> ELSE << >>)
    \o (IF options.brightness # Undefined THEN << "brightness" >> ELSE << >>)
    \o (IF options.color.present THEN << "color" >> ELSE << >>)
\* turnOnLight: the sub-calls it makes, in the order of its statements
TurnOnLightCalls(options) ==
    << "state" >>
    \o (IF options.brightness # Undefined THEN << "brightness" >> ELSE << >>)
    \o (IF options.color_temp # Undefined THEN << "color_temp" >> ELSE << >>)
    \o (IF options.color.present THEN << "color" >> ELSE << >>)

\* setColor: "if (!color) return"
SetColorCalls(color) == IF color.present THEN << "color" >> ELSE << >>

\* the sendCommand arguments of a sub-call
SubCommand(call, options) ==
    CASE call = "state"      -> [cmd |-> "state", sval |-> "ON", val |-> 0]
      [] call = "brightness" -> [cmd |-> "brightness", sval |-> "",
                                 val |-> Brightness254(options.brightness)]
      [] call = "color_temp" -> [cmd |-> "color_temp", sval |-> "",
                                 val |-> Mireds(options.color_temp)]
      [] call = "color"      -> [cmd |-> "color", sval |-> ColorPayload(options.color),
                                 val |-> 0]

\* the sub-calls left once those that return without a command are passed:
\* a setColor whose color carries no representation
RECURSIVE SkipNoOps(_, _)
SkipNoOps(rest, options) ==
    IF rest # << >> /\ Head(rest) = "color" /\ ColorPayload(options.color) = ""
    THEN SkipNoOps(Tail(rest), options)
    ELSE rest

\* the call of t goes on to its next sub-call: it returns when none is left,
\* and otherwise enters sendCommand, up to "await getDeviceDefinition"
SvcIntentProceed(t, others, emitted) ==
    LET rest == SkipNoOps(t.rest, t.opts) IN
    IF rest = << >>
    THEN /\ tasks' = others
         /\ obs' = Obs(Returns(t, "ok"), emitted, << >>)
    ELSE LET c == SubCommand(Head(rest), t.opts)
             n == [t EXCEPT !.pc = "awaitDefinition", !.cmd = c.cmd, !.sval = c.sval,
                            !.val = c.val, !.rest = Tail(rest)]
         IN IF ~SvcHasHerdsmanDevice(t.dev)
            THEN /\ tasks' = others
                 /\ obs' = Obs(Throws(n, "Error", "Appareil non trouve"), emitted, << >>)
            ELSE /\ n \notin others
                 /\ tasks' = others \cup {n}
                 /\ obs' = Obs(NoRet, emitted, << >>)

IntentCalls == {"turnOnLight", "setColor", "setBrightness", "setColorTemperature"}

\* turnOnLight(ieeeAddr, options)
SvcTurnOnLight(d, options) ==
    /\ app = "service"
    /\ Cardinality(tasks) < MaxCalls
    /\ SvcIntentProceed([NoTask EXCEPT !.op = "turnOnLight", !.ctrl = controller,
                                       !.dev = d, !.opts = options,
                                       !.rest = TurnOnLightCalls(options),
                                       !.running = isStarted],
                        tasks, << >>)
    /\ UNCHANGED <<app, store, sessions, svcVars, cliVars>>

\* setColor(ieeeAddr, color)
SvcSetColor(d, color) ==
    /\ app = "service"
    /\ Cardinality(tasks) < MaxCalls
    /\ SvcIntentProceed([NoTask EXCEPT !.op = "setColor", !.ctrl = controller,
                                       !.dev = d, !.opts = [NoOptions EXCEPT !.color = color],
                                       !.rest = SetColorCalls(color),
                                       !.running = isStarted],
                        tasks, << >>)
    /\ UNCHANGED <<app, store, sessions, svcVars, cliVars>>

\* the sendCommand of a sub-call, from the definition to "await convertSet"
SvcIntentConvert(t) ==
    /\ t \in tasks /\ t.op \in IntentCalls /\ t.pc = "awaitDefinition"
    /\ LET definition == FindByDevice(t.dev)
           endpoint   == DefaultEndpoint(t.dev)
           i          == FindConverter(definition.toZigbee, t.cmd, 1)
       IN
       IF ~definition.found
       THEN /\ tasks' = tasks \ {t}
            /\ obs' = Obs(Throws(t, "Error", "Definition non trouvee"), << >>, << >>)
       ELSE IF endpoint = 0
       THEN /\ tasks' = tasks \ {t}
            /\ obs' = Obs(Throws(t, "Error", "Endpoint non trouve"), << >>, << >>)
       ELSE IF i = 0
       THEN /\ tasks' = tasks \ {t}
            /\ obs' = Obs(Throws(t, "Error", "Convertisseur non trouve"), << >>, << >>)
       ELSE /\ tasks' = (tasks \ {t}) \cup {[t EXCEPT !.pc = "awaitConvert",
                                                       !.cmds = t.cmds + 1]}
            /\ obs' = Obs(NoRet, << >>,
                          << LowLevel("command", t.ctrl, t.dev, endpoint, t.cmd,
                                      t.sval, t.val) >>)
    /\ UNCHANGED <<app, store, sessions, svcVars, cliVars>>

\* convertSet of a sub-call resolved: the cache is updated, the sub-call
\* returns and the intent goes on
SvcIntentResolved(t, hasState) ==
    /\ t \in tasks /\ t.op \in IntentCalls /\ t.pc = "awaitConvert"
    /\ sessions[t.ctrl] = "running"
    /\ LET state == ConvertedState(t.cmd, t.sval, t.val)
           wrote == hasState /\ t.dev \in DOMAIN devices
       IN
       /\ devices' = IF hasState THEN updateDeviceState(t.dev, state) ELSE devices
       /\ SvcIntentProceed([t EXCEPT !.wrote = t.wrote \/ wrote], tasks \ {t},
                           IF hasState THEN StateChangeEvents(t.dev, state) ELSE << >>)
    /\ UNCHANGED <<app, store, sessions, controller, isStarted, permitJoinEnabled, cliVars>>

\* convertSet of a sub-call rejected: sendCommand rethrows, and so does the intent
SvcIntentRejected(t) ==
    /\ t \in tasks /\ t.op \in IntentCalls /\ t.pc = "awaitConvert"
    /\ tasks' = tasks \ {t}
    /\ obs' = Obs(Throws(t, "Error", "transport"), << >>, << >>)
    /\ UNCHANGED <<app, store, sessions, svcVars, cliVars>>

\* setBrightness(ieeeAddr, brightness)
SvcSetBrightness(d, brightness) ==
    /\ app = "service"
    /\ Cardinality(tasks) < MaxCalls
    /\ SvcIntentProceed([NoTask EXCEPT !.op = "setBrightness", !.ctrl = controller,
                                       !.dev = d,
                                       !.opts = [NoOptions EXCEPT !.brightness = brightness],
                                       !.rest = << "brightness" >>,
                                       !.running = isStarted],
                        tasks, << >>)
    /\ UNCHANGED <<app, store, sessions, svcVars, cliVars>>

\* setColorTemperature(ieeeAddr, colorTemp)
SvcSetColorTemperature(d, colorTemp) ==
    /\ app = "service"
    /\ Cardinality(tasks) < MaxCalls
    /\ SvcIntentProceed([NoTask EXCEPT !.op = "setColorTemperature", !.ctrl = controller,
                                       !.dev = d,
                                       !.opts = [NoOptions EXCEPT !.color_temp = colorTemp],
                                       !.rest = << "color_temp" >>,
                                       !.running = isStarted],
                        tasks, << >>)
    /\ UNCHANGED <<app, store, sessions, svcVars, cliVars>>

\* the brightness percentages callers pass, some outside 0..100
BrightnessInputs == {0 - 10, 0, 1, 33, 50, 80, 100, 150}
\* the color temperatures callers pass, in mireds and in Kelvin
ColorTempInputs == {153, 250, 499, 500, 501, 4000, 6500}

\* the options callers pass to turnOnLight
LightOptions ==
    { NoOptions,
      [NoOptions EXCEPT !.brightness = 80],
      [NoOptions EXCEPT !.color_temp = 4000,
                        !.color = [NoColor EXCEPT !.present = TRUE, !.hex = "#FF5500",
                                                  !.rgb = TRUE]],
      [NoOptions EXCEPT !.brightness = 0, !.color_temp = 4000,
                        !.color = [NoColor EXCEPT !.present = TRUE, !.hue = 0,
                                                  !.saturation = 100]],
      [NoOptions EXCEPT !.color = [NoColor EXCEPT !.present = TRUE]] }

\* the colors callers pass to setColor
Colors ==
    { NoColor,
      [NoColor EXCEPT !.present = TRUE],
      [NoColor EXCEPT !.present = TRUE, !.hex = "#FF5500", !.rgb = TRUE],
      [NoColor EXCEPT !.present = TRUE, !.rgb = TRUE, !.hue = 0, !.saturation = 100],
      [NoColor EXCEPT !.present = TRUE, !.hue = 0, !.saturation = 100],
      [NoColor EXCEPT !.present = TRUE, !.hue = 120],
      [NoColor EXCEPT !.present = TRUE, !.rgb = TRUE],
      [NoColor EXCEPT !.present = TRUE, !.hex = "#FF5500"] }

\* the addresses light intents name: a plug and a bulb
LightTargets == {"plug", "bulb"}

----------------------------------------------------------------------------
(* ZigbeeDeviceService.readState *)

\* how the device answers an endpoint.read: with the attribute, with an
\* unsupported-cluster status, or not at all before the timeout
ReadAnswers == {"ok", "unsupported", "timeout"}

\* the clusters readState reads, in its order
ReadClusters == << "genOnOff", "genLevelCtrl", "lightingColorCtrl" >>

\* the raw attribute values a device reports
RawValues(cluster) ==
    CASE cluster = "genOnOff"          -> {0, 1}
      [] cluster = "genLevelCtrl"      -> {128}
      [] cluster = "lightingColorCtrl" -> {370}

\* the key of ZigbeeDeviceState a cluster's read fills
ReadAttribute(cluster) ==
    CASE cluster = "genOnOff"          -> "state"
      [] cluster = "genLevelCtrl"      -> "brightness"
      [] cluster = "lightingColorCtrl" -> "color_temp"

\* "state.state = onOffResult.onOff ? ON : OFF", "state.brightness = currentLevel",
\* "state.color_temp = colorTemperature"
ReadDecoded(cluster, raw) ==
    IF cluster = "genOnOff"
    THEN [a \in {"state"} |-> IF raw # 0 THEN "ON" ELSE "OFF"]
    ELSE [a \in {ReadAttribute(cluster)} |-> raw]

\* a read whose failure still leaves a key in the result
ReadOutcomeMutant(acc, cluster, answer, raw) ==
    Overlay(acc, ReadDecoded(cluster, IF answer = "ok" THEN raw ELSE 0))
\* "try { ... = await endpoint.read(...) } catch { }": the state collected so far
ReadOutcome(acc, cluster, answer, raw) ==
    IF answer = "ok" THEN Overlay(acc, ReadDecoded(cluster, raw)) ELSE acc

\* readState up to the first "await endpoint.read"
SvcReadState(d) ==
    /\ app = "service"
    /\ Cardinality(tasks) < MaxCalls
    /\ LET t == [NoTask EXCEPT !.op = "readState", !.pc = "awaitRead",
                               !.ctrl = controller, !.dev = d, !.rest = ReadClusters,
                               !.running = isStarted]
           endpoint == DefaultEndpoint(d)
       IN
       IF ~SvcHasHerdsmanDevice(d)
       THEN /\ obs' = Obs(Throws(t, "Error", "Appareil non trouve"), << >>, << >>)
            /\ UNCHANGED tasks
       ELSE IF endpoint = 0
       THEN /\ obs' = Obs(Throws(t, "Error", "Endpoint non trouve"), << >>, << >>)
            /\ UNCHANGED tasks
       ELSE /\ CanSuspend /\ t \notin tasks
            /\ tasks' = tasks \cup {t}
            /\ obs' = Obs(NoRet, << >>,
                          << LowLevel("read", controller, d, endpoint, Head(ReadClusters),
                                      "", 0) >>)
    /\ UNCHANGED <<app, store, sessions, svcVars, cliVars>>

\* one endpoint.read of readState settled: the next read, or after the last
\* "updateDeviceState(ieeeAddr, state); return state"
SvcReadStateAnswered(t, answer, raw) ==
    /\ t \in tasks /\ t.op = "readState" /\ t.pc = "awaitRead"
    /\ app = "service"
    /\ raw \in RawValues(Head(t.rest))
    /\ LET cluster == Head(t.rest)
           state   == ReadOutcome(t.acc, cluster, answer, raw)
           u       == [t EXCEPT !.acc = state,
                                !.answers = Append(t.answers,
                                                   [cluster |-> cluster, answer |-> answer,
                                                    raw |-> IF answer = "ok" THEN raw ELSE 0]),
                                !.rest = Tail(t.rest), !.cmds = t.cmds + 1]
       IN
       IF u.rest # << >>
       THEN /\ tasks' = (tasks \ {t}) \cup {u}
            /\ obs' = Obs(NoRet, << >>,
                          << LowLevel("read", t.ctrl, t.dev, DefaultEndpoint(t.dev),
                                      Head(u.rest), "", 0) >>)
            /\ UNCHANGED devices
       ELSE /\ tasks' = tasks \ {t}
            /\ devices' = updateDeviceState(t.dev, state)
            /\ obs' = Obs(Returns([u EXCEPT !.wrote = t.dev \in DOMAIN devices], "ok"),
                          StateChangeEvents(t.dev, state), << >>)
    /\ UNCHANGED <<app, store, sessions, controller, isStarted, permitJoinEnabled,
                   cliVars>>

\* the addresses readState is called with: a plug of the directory, and a
\* sensor the controller does not know
ReadTargets == {"plug", "sens"}

----------------------------------------------------------------------------
(* ZigbeeDeviceService.readPowerConsumption *)

\* the clusters readPowerConsumption reads, in its order
PowerClusters == << "haElectricalMeasurement", "seMetering" >>

\* the raw attribute values a metering plug reports:
\* <<activePower, rmsVoltage, rmsCurrent>> and <<currentSummDelivered>>
PowerRawValues(cluster) ==
    IF cluster = "haElectricalMeasurement"
    THEN { <<1234, 2301, 457>>, <<0, 2298, 0>> }
    ELSE { <<12345>> }

\* the keys of the result a cluster's read fills
PowerAttributes(cluster) ==
    IF cluster = "haElectricalMeasurement" THEN {"power", "voltage", "current"}
    ELSE {"energy"}

\* "raw / divisor" as an exact number of thousandths (the divisors are 10, 100, 1000)
Scaled(raw, divisor) == (raw * 1000) \div divisor

\* a normalisation that takes the current in hundredths of an ampere
PowerDecodedMutant(cluster, raw) ==
    IF cluster = "haElectricalMeasurement"
    THEN [a \in {"power", "voltage", "current"} |->
            CASE a = "power"   -> Scaled(raw[1], 10)
              [] a = "voltage" -> Scaled(raw[2], 10)
              [] a = "current" -> Scaled(raw[3], 100)]
    ELSE [a \in {"energy"} |-> Scaled(raw[1], 100)]
\* "result.power = activePower / 10; result.voltage = rmsVoltage / 10;
\*  result.current = rmsCurrent / 1000" and "result.energy = delivered / 100"
PowerDecoded(cluster, raw) ==
    IF cluster = "haElectricalMeasurement"
    THEN [a \in {"power", "voltage", "current"} |->
            CASE a = "power"   -> Scaled(raw[1], 10)
              [] a = "voltage" -> Scaled(raw[2], 10)
              [] a = "current" -> Scaled(raw[3], 1000)]
    ELSE [a \in {"energy"} |-> Scaled(raw[1], 100)]

\* "try { ... = await endpoint.read(...) } catch { }": the result collected so far
PowerOutcome(acc, cluster, answer, raw) ==
    IF answer = "ok" THEN Overlay(acc, PowerDecoded(cluster, raw)) ELSE acc

\* readPowerConsumption up to the first "await endpoint.read"
SvcReadPowerConsumption(d) ==
    /\ app = "service"
    /\ Cardinality(tasks) < MaxCalls
    /\ LET t == [NoTask EXCEPT !.op = "readPowerConsumption", !.pc = "awaitRead",
                               !.ctrl = controller, !.dev = d, !.rest = PowerClusters,
                               !.running = isStarted]
           endpoint == DefaultEndpoint(d)
       IN
       IF ~SvcHasHerdsmanDevice(d)
       THEN /\ obs' = Obs(Throws(t, "Error", "Appareil non trouve"), << >>, << >>)
            /\ UNCHANGED tasks
       ELSE IF endpoint = 0
       THEN /\ obs' = Obs(Throws(t, "Error", "Endpoint non trouve"), << >>, << >>)
            /\ UNCHANGED tasks
       ELSE /\ CanSuspend /\ t \notin tasks
            /\ tasks' = tasks \cup {t}
            /\ obs' = Obs(NoRet, << >>,
                          << LowLevel("read", controller, d, endpoint, Head(PowerClusters),
                                      "", 0) >>)
    /\ UNCHANGED <<app, store, sessions, svcVars, cliVars>>

\* one endpoint.read of readPowerConsumption settled: the next read, or after
\* the last "updateDeviceState(ieeeAddr, result); return result"
SvcReadPowerAnswered(t, answer, raw) ==
    /\ t \in tasks /\ t.op = "readPowerConsumption" /\ t.pc = "awaitRead"
    /\ app = "service"
    /\ raw \in PowerRawValues(Head(t.rest))
    /\ LET cluster == Head(t.rest)
           result  == PowerOutcome(t.acc, cluster, answer, raw)
           u       == [t EXCEPT !.acc = result,
                                !.answers = Append(t.answers,
                                                   [cluster |-> cluster, answer |-> answer,
                                                    raw |-> IF answer = "ok" THEN raw
                                                            ELSE << >>]),
                                !.rest = Tail(t.rest), !.cmds = t.cmds + 1]
       IN
       IF u.rest # << >>
       THEN /\ tasks' = (tasks \ {t}) \cup {u}
            /\ obs' = Obs(NoRet, << >>,
                          << LowLevel("read", t.ctrl, t.dev, DefaultEndpoint(t.dev),
                                      Head(u.rest), "", 0) >>)
            /\ UNCHANGED devices
       ELSE /\ tasks' = tasks \ {t}
            /\ devices' = updateDeviceState(t.dev, result)
            /\ obs' = Obs(Returns([u EXCEPT !.wrote = t.dev \in DOMAIN devices], "ok"),
                          StateChangeEvents(t.dev, result), << >>)
    /\ UNCHANGED <<app, store, sessions, controller, isStarted, permitJoinEnabled,
                   cliVars>>

----------------------------------------------------------------------------
(* DeviceRegistry and sendOnOff (CLI stack) *)

\* a capability flag that looks at the input clusters only
supportsOnOffMutant(d) ==
    \E i \in DOMAIN HerdsmanEndpoints(d) :
        CLUSTER_ON_OFF \in HerdsmanEndpoints(d)[i].inputClusters
\* "dev.endpoints.some((ep) => ep.inputClusters.includes(CLUSTER_ON_OFF) ||
\*  ep.outputClusters.includes(CLUSTER_ON_OFF))"
supportsOnOff(d) ==
    \E i \in DOMAIN HerdsmanEndpoints(d) :
        \/ CLUSTER_ON_OFF \in HerdsmanEndpoints(d)[i].inputClusters
        \/ CLUSTER_ON_OFF \in HerdsmanEndpoints(d)[i].outputClusters

\* the devices listDevices() returns
ListedDevices == {d \in store : HerdsmanType(d) # "Coordinator"}

\* listDevices(): getController(), then every device but the coordinator,
\* each with its supportsOnOff (in result)
CliListDevices ==
    /\ app = "cli"
    /\ LET r == [NoRet EXCEPT !.op = "listDevices", !.running = started] IN
       obs' = Obs(IF ~CliRunning
                  THEN [r EXCEPT !.threw = TRUE, !.name = "CoordinatorError",
                                 !.msg = "not running"]
                  ELSE [r EXCEPT !.list = ListedDevices,
                                 !.result = [d \in ListedDevices |-> supportsOnOff(d)]],
                  << >>, << >>)
    /\ UNCHANGED <<app, store, sessions, svcVars, cliVars, tasks>>

\* findDevice(ieeeAddr): listDevices().find, or DeviceNotFoundError
CliFindDevice(d) ==
    /\ app = "cli"
    /\ LET r == [NoRet EXCEPT !.op = "findDevice", !.dev = d, !.running = started] IN
       obs' = Obs(IF ~CliRunning
                  THEN [r EXCEPT !.threw = TRUE, !.name = "CoordinatorError",
                                 !.msg = "not running"]
                  ELSE IF d \in store /\ HerdsmanType(d) # "Coordinator"
                  THEN [r EXCEPT !.msg = "device", !.list = {d}]
                  ELSE [r EXCEPT !.threw = TRUE, !.name = "DeviceNotFoundError",
                                 !.msg = "Device not found"],
                  << >>, << >>)
    /\ UNCHANGED <<app, store, sessions, svcVars, cliVars, tasks>>

\* getOnOffEndpoint: the first endpoint with genOnOff among its input clusters,
\* else the first with it among its output clusters; the ID, 0 for none
RECURSIVE FirstEndpoint(_, _)
FirstEndpoint(eps, input) ==
    IF eps = << >> THEN 0
    ELSE IF CLUSTER_ON_OFF \in (IF input THEN Head(eps).inputClusters
                                         ELSE Head(eps).outputClusters)
         THEN Head(eps).ID
         ELSE FirstEndpoint(Tail(eps), input)

getOnOffEndpoint(d) ==
    LET eps == HerdsmanEndpoints(d) IN
    IF FirstEndpoint(eps, TRUE) # 0 THEN FirstEndpoint(eps, TRUE)
    ELSE FirstEndpoint(eps, FALSE)

OnOffActions == {"on", "off", "toggle"}

\* sendOnOff up to "await ep.command(...)"
CliSendOnOff(d, action) ==
    /\ app = "cli"
    /\ LET t == [NoTask EXCEPT !.op = "sendOnOff", !.pc = "awaitCommand",
                               !.ctrl = cliController, !.dev = d, !.cmd = "state",
                               !.sval = action, !.running = started] IN
       IF ~CliRunning
       THEN /\ obs' = Obs(Throws(t, "CoordinatorError", "not running"), << >>, << >>)
            /\ UNCHANGED tasks
       ELSE IF d \notin store
       THEN /\ obs' = Obs(Throws(t, "DeviceNotFoundError", "Device not found"), << >>, << >>)
            /\ UNCHANGED tasks
       ELSE IF getOnOffEndpoint(d) = 0
       THEN /\ obs' = Obs(Throws(t, "UnsupportedActionError", "not supported"), << >>, << >>)
            /\ UNCHANGED tasks
       ELSE /\ CanSuspend /\ [t EXCEPT !.cmds = 1] \notin tasks
            /\ tasks' = tasks \cup {[t EXCEPT !.cmds = 1]}
            /\ obs' = Obs(NoRet, << >>,
                          << LowLevel("command", cliController, d, getOnOffEndpoint(d),
                                      "genOnOff", action, 0) >>)
    /\ UNCHANGED <<app, store, sessions, svcVars, cliVars>>

\* ep.command settled: sendOnOff returns, or the rejection `error` propagates
CliSendOnOffEnded(t, resolved, error) ==
    /\ t \in tasks /\ t.op = "sendOnOff" /\ t.pc = "awaitCommand"
    /\ app = "cli"
    /\ resolved => sessions[t.ctrl] = "running"
    /\ tasks' = tasks \ {t}
    /\ obs' = Obs(IF resolved THEN Returns(t, "ok")
                  ELSE [Throws(t, "Error", error) EXCEPT !.cause = {error}],
                  << >>, << >>)
    /\ UNCHANGED <<app, store, sessions, svcVars, cliVars>>

\* ep.command settled
CliSendOnOffSettled(t, resolved) == CliSendOnOffEnded(t, resolved, "transport")

----------------------------------------------------------------------------
(* Notifications of the network controller *)

\* a handler that only logs the loss of the adapter
AdapterDisconnectedMutant(c) ==
    /\ c \in DOMAIN sessions /\ sessions[c] = "running"
    /\ sessions' = [sessions EXCEPT ![c] = "disconnected"]
    /\ obs' = Quiet
    /\ UNCHANGED <<app, store, svcVars, cliVars, tasks>>
\* 'adapterDisconnected' of Controller c: isStarted / started = false
AdapterDisconnected(c) ==
    /\ c \in DOMAIN sessions /\ sessions[c] = "running"
    /\ sessions' = [sessions EXCEPT ![c] = "disconnected"]
    /\ IF app = "service"
       THEN /\ isStarted' = FALSE
            /\ obs' = Obs(NoRet, << Event("ADAPTER_DISCONNECTED", "", FALSE, 0, EmptyState) >>,
                          << >>)
            /\ UNCHANGED started
       ELSE /\ started' = FALSE
            /\ obs' = Quiet
            /\ UNCHANGED isStarted
    /\ UNCHANGED <<app, store, controller, devices, permitJoinEnabled, cliController, tasks>>

----------------------------------------------------------------------------
(* ZigbeeService: the handlers of setupEventListeners *)

\* the Controller raises its notifications while its adapter is up
Notifying == app = "service" /\ controller # 0 /\ sessions[controller] = "running"

\* Map.delete
MapDelete(m, k) == [x \in DOMAIN m \ {k} |-> m[x]]

\* a handler suspended at "await this.mapDevice(payload.device)"
HandlerTask(op, pc, d, status) ==
    [NoTask EXCEPT !.op = op, !.pc = pc, !.ctrl = controller, !.dev = d,
                   !.sval = status, !.running = isStarted]

\* 'deviceJoined': the device is in the database when the handler runs
SvcDeviceJoined(d) ==
    /\ Notifying /\ HerdsmanType(d) # "Coordinator"
    /\ LET t == HandlerTask("deviceJoined", "awaitMap", d, "") IN
       /\ CanSuspend /\ t \notin tasks
       /\ tasks' = tasks \cup {t}
    /\ store' = store \cup {d}
    /\ obs' = Quiet
    /\ UNCHANGED <<app, sessions, svcVars, cliVars>>

\* 'deviceJoined' after mapDevice: "this.devices.set(...)" and DEVICE_JOINED
SvcDeviceJoinedMapped(t) ==
    /\ t \in tasks /\ t.op = "deviceJoined" /\ t.pc = "awaitMap"
    /\ devices' = MapSet(devices, t.dev, mapDevice(t.dev))
    /\ obs' = Obs(NoRet, << DeviceEvent("DEVICE_JOINED", mapDevice(t.dev), "") >>, << >>)
    /\ tasks' = tasks \ {t}
    /\ UNCHANGED <<app, store, sessions, controller, isStarted, permitJoinEnabled, cliVars>>

\* a 'deviceLeave' handler that announces the departure and keeps the entry
SvcDeviceLeaveMutant(d) ==
    /\ Notifying /\ d \in store /\ HerdsmanType(d) # "Coordinator"
    /\ store' = store \ {d}
    /\ devices' = devices
    /\ obs' = Obs(NoRet, << Event("DEVICE_LEFT", d, FALSE, 0, EmptyState) >>, << >>)
    /\ UNCHANGED <<app, sessions, controller, isStarted, permitJoinEnabled, cliVars, tasks>>
\* 'deviceLeave': the directory entry is deleted and DEVICE_LEFT emitted
SvcDeviceLeave(d) ==
    /\ Notifying /\ d \in store /\ HerdsmanType(d) # "Coordinator"
    /\ store' = store \ {d}
    /\ devices' = MapDelete(devices, d)
    /\ obs' = Obs(NoRet, << Event("DEVICE_LEFT", d, FALSE, 0, EmptyState) >>, << >>)
    /\ UNCHANGED <<app, sessions, controller, isStarted, permitJoinEnabled, cliVars, tasks>>

InterviewStatus == {"started", "successful", "failed"}

\* 'deviceInterview': only a successful interview maps the device for the
\* directory; every status maps it for the payload
SvcDeviceInterview(d, status) ==
    /\ Notifying /\ d \in store /\ HerdsmanType(d) # "Coordinator"
    /\ LET t == HandlerTask("deviceInterview",
                            IF status = "successful" THEN "awaitMap" ELSE "awaitPayload",
                            d, status) IN
       /\ CanSuspend /\ t \notin tasks
       /\ tasks' = tasks \cup {t}
    /\ obs' = Quiet
    /\ UNCHANGED <<app, store, sessions, svcVars, cliVars>>

\* 'deviceInterview' after the first mapDevice: "this.devices.set(...)", then
\* "await this.mapDevice(payload.device)" inside the payload
SvcDeviceInterviewMapped(t) ==
    /\ t \in tasks /\ t.op = "deviceInterview" /\ t.pc = "awaitMap"
    /\ devices' = MapSet(devices, t.dev, mapDevice(t.dev))
    /\ tasks' = (tasks \ {t}) \cup {[t EXCEPT !.pc = "awaitPayload"]}
    /\ obs' = Quiet
    /\ UNCHANGED <<app, store, sessions, controller, isStarted, permitJoinEnabled, cliVars>>

\* 'deviceInterview' after the payload's mapDevice: DEVICE_INTERVIEW
SvcDeviceInterviewEmit(t) ==
    /\ t \in tasks /\ t.op = "deviceInterview" /\ t.pc = "awaitPayload"
    /\ obs' = Obs(NoRet, << DeviceEvent("DEVICE_INTERVIEW", mapDevice(t.dev), t.sval) >>,
                  << >>)
    /\ tasks' = tasks \ {t}
    /\ UNCHANGED <<app, store, sessions, svcVars, cliVars>>

\* 'deviceAnnounce'
SvcDeviceAnnounce(d) ==
    /\ Notifying /\ d \in store /\ HerdsmanType(d) # "Coordinator"
    /\ LET t == HandlerTask("deviceAnnounce", "awaitMap", d, "") IN
       /\ CanSuspend /\ t \notin tasks
       /\ tasks' = tasks \cup {t}
    /\ obs' = Quiet
    /\ UNCHANGED <<app, store, sessions, svcVars, cliVars>>

\* 'deviceAnnounce' after mapDevice: "this.devices.set(...)" and DEVICE_ANNOUNCE
SvcDeviceAnnounceMapped(t) ==
    /\ t \in tasks /\ t.op = "deviceAnnounce" /\ t.pc = "awaitMap"
    /\ devices' = MapSet(devices, t.dev, mapDevice(t.dev))
    /\ obs' = Obs(NoRet, << DeviceEvent("DEVICE_ANNOUNCE", mapDevice(t.dev), "") >>, << >>)
    /\ tasks' = tasks \ {t}
    /\ UNCHANGED <<app, store, sessions, controller, isStarted, permitJoinEnabled, cliVars>>

\* a handler that forwards every message, mapping the sender when it is unknown
MessageEventsMutant(d) == << DeviceEvent("MESSAGE", mapDevice(d), "") >>
\* 'message': "const device = this.devices.get(...); if (device) { ... emit }"
MessageEvents(d) ==
    IF d \in DOMAIN devices
    THEN << DeviceEvent("MESSAGE", devices[d], "") >>
    ELSE << >>

\* 'message' from device d
SvcMessage(d) ==
    /\ Notifying /\ d \in store /\ HerdsmanType(d) # "Coordinator"
    /\ obs' = Obs([NoRet EXCEPT !.op = "message", !.dev = d], MessageEvents(d), << >>)
    /\ UNCHANGED <<app, store, sessions, svcVars, cliVars, tasks>>

\* the partial states merged into the cache
Partials == { [a \in {"state"} |-> "ON"], [a \in {"state"} |-> "OFF"],
              [a \in {"brightness"} |-> 80] }

\* updateDeviceState(ieeeAddr, state), called on the service
SvcUpdateDeviceState(d, state) ==
    /\ app = "service"
    /\ devices' = updateDeviceState(d, state)
    /\ obs' = Obs([NoRet EXCEPT !.op = "updateDeviceState", !.dev = d,
                                !.running = isStarted, !.wrote = d \in DOMAIN devices],
                  StateChangeEvents(d, state), << >>)
    /\ UNCHANGED <<app, store, sessions, controller, isStarted, permitJoinEnabled,
                   cliVars, tasks>>

----------------------------------------------------------------------------
(* Lifecycle, as the two stacks hold it *)

\* the running flag of the stack in use
Running == IF app = "service" THEN isStarted ELSE started

\* Controller sessions that were created and hold, or are opening, the transport
ActiveSessions == {c \in DOMAIN sessions : sessions[c] \in {"starting", "running"}}

\* after 'adapterDisconnected' on the Controller the service holds
SvcFaulted == controller # 0 /\ sessions[controller] = "disconnected"

\* the step is a call of op that returned or threw before any await
ImmediateReturn(op) == obs'.ret.op = op /\ tasks' = tasks
\* the step is a call of op that suspended at its first await
Suspended(op) ==
    /\ Cardinality(tasks') = Cardinality(tasks) + 1
    /\ \E t \in tasks' \ tasks : t.op = op

PermitOps == {"permitJoin", "disableJoin"}

----------------------------------------------------------------------------
(* Claims *)

\* the capability data of device d carries the intent: the service needs a
\* catalog definition, an endpoint and a converter whose keys include the
\* command; the CLI needs an endpoint exposing the On/Off cluster
Supports(d, cmd) ==
    IF app = "service"
    THEN /\ FindByDevice(d).found
         /\ DefaultEndpoint(d) # 0
         /\ FindConverter(FindByDevice(d).toZigbee, cmd, 1) # 0
    ELSE getOnOffEndpoint(d) # 0

IntentOps == {"sendCommand", "sendOnOff"}
DeviceOps == IntentOps \cup {"getDevices", "getDevice", "listDevices", "findDevice"}

\* C1 (as claimed): an intent dispatched, while running, on a paired device
\* whose capability data does not carry it throws UnsupportedActionError, having
\* issued no low-level command and written nothing to the state cache.
C1_UnsupportedIntentRejected ==
    (/\ obs.ret.op \in IntentOps /\ obs.ret.running
     /\ obs.ret.dev \in store /\ ~Supports(obs.ret.dev, obs.ret.cmd))
        => /\ obs.ret.threw /\ obs.ret.name = "UnsupportedActionError"
           /\ obs.ret.cmds = 0 /\ ~obs.ret.wrote

\* C4 (as claimed): a device operation called while the running flag is clear
\* throws the not-running error and issues no low-level command or read.
C4_NotRunningRejected ==
    (obs.ret.op \in DeviceOps /\ ~obs.ret.running)
        => /\ obs.ret.threw /\ obs.ret.msg \in {"not running", "pas demarre"}
           /\ obs.ret.cmds = 0

\* C2: start() called while the running flag is set returns "already started"
\* without throwing, creates no Controller, makes no low-level call, suspends
\* nothing (no device reload) and leaves the directory and every field as they were.
C2_StartWhenRunningIsNoOp ==
    [][ (Running /\ (ImmediateReturn("start") \/ Suspended("start")))
        => /\ obs'.ret.op = "start" /\ ~obs'.ret.threw
           /\ obs'.ret.msg = "already-started"
           /\ obs'.sent = << >>
           /\ UNCHANGED <<store, sessions, svcVars, cliVars, tasks>> ]_vars

\* C2 witness: the service, running with a loaded directory, answered a second start()
C2_Witness ==
    /\ app = "service" /\ isStarted /\ DOMAIN devices = {"plug", "bulb"}
    /\ obs.ret.op = "start" /\ obs.ret.msg = "already-started"

\* C3 (as claimed): at most one Controller session is created and not stopped
\* at any time, whatever the interleaving of start() calls.
C3_AtMostOneSession == Cardinality(ActiveSessions) <= 1

\* C5 (as claimed): whenever start() throws, the running flag is false.
C5_FailedStartLeavesStopped ==
    (obs.ret.op = "start" /\ obs.ret.threw) => ~Running

\* C6 (as claimed): whenever the service is observed running, every
\* non-coordinator device of the controller's database is in the directory.
C6_LoadedBeforeRunning ==
    (app = "service" /\ isStarted)
        => \A d \in store : HerdsmanType(d) # "Coordinator" => d \in DOMAIN devices

\* C7 (as claimed): stop() called while running, or after the adapter
\* disconnected, and returning normally, leaves the service not started and the
\* directory empty.
C7_StopClearsDirectory ==
    (/\ app = "service" /\ obs.ret.op = "stop" /\ ~obs.ret.threw
     /\ (obs.ret.running \/ SvcFaulted))
        => (~isStarted /\ DOMAIN devices = {})

\* C8 (as claimed): once stop() has returned, isPermitJoinEnabled() is false.
C8_StopDisablesPairing ==
    (app = "service" /\ obs.ret.op = "stop" /\ ~obs.ret.threw) => ~permitJoinEnabled

\* C9 (as claimed): enabling the pairing window for d seconds hands
\* clamp(d, 1, 254) to controller.permitJoin.
C9_DurationClamped ==
    [][ \A t \in tasks' \ tasks :
            (Suspended("permitJoin") /\ t.op = "permitJoin" /\ t.flag)
                => /\ Len(obs'.sent) = 1
                   /\ obs'.sent[1].kind = "permitJoin"
                   /\ obs'.sent[1].val = Min(Max(t.val, 1), 254) ]_vars

C12_MessageOfUnknownDropped ==
    [][ obs'.ret.op = "message"
        => LET d == obs'.ret.dev IN
           /\ devices' = devices
           /\ IF d \in DOMAIN devices
              THEN /\ Len(obs'.emitted) = 1
                   /\ obs'.emitted[1].name = "MESSAGE"
                   /\ obs'.emitted[1].device = devices[d]
              ELSE obs'.emitted = << >> ]_vars

C12_Witness ==
    /\ obs.ret.op = "message" /\ obs.ret.dev = "sens" /\ obs.emitted = << >>
    /\ "sens" \in store /\ "sens" \notin DOMAIN devices
    /\ \E t \in tasks : t.op = "deviceJoined" /\ t.dev = "sens"

\* the event is one of those the directory is promised to agree with
UpsertEvent(e) ==
    \/ e.name = "DEVICE_ANNOUNCE"
    \/ e.name = "DEVICE_INTERVIEW" /\ e.status = "successful"

\* C13: when a DEVICE_ANNOUNCE or a successful DEVICE_INTERVIEW event is
\* emitted, the directory holds an entry for the event's device and that entry
\* equals the device of the payload.
C13_EventMatchesDirectory ==
    \A i \in DOMAIN obs.emitted :
        LET e == obs.emitted[i] IN
        UpsertEvent(e) => /\ e.dev \in DOMAIN devices
                          /\ devices[e.dev] = e.device

UpsertOps == {"deviceJoined", "deviceAnnounce", "deviceInterview"}

\* C14: when a join, announce or successful-interview handler writes the entry
\* of a device that is already in the directory, every attribute of the cached
\* state of the device keeps its value.
C14_UpsertKeepsCachedState ==
    [][ \A t \in tasks \ tasks' :
          (t.op \in UpsertOps /\ t.pc = "awaitMap" /\ t.dev \in DOMAIN devices)
            => /\ t.dev \in DOMAIN devices'
               /\ \A a \in DOMAIN devices[t.dev].state :
                    /\ a \in DOMAIN devices'[t.dev].state
                    /\ devices'[t.dev].state[a] = devices[t.dev].state[a] ]_vars

\* C15: updateDeviceState on a device of the directory overlays the partial
\* state on the cached one: each attribute takes the partial state's value if
\* the partial state has it, and keeps its cached value otherwise; the merged
\* state has the attributes of both and no other entry changes.
C15_MergeIsOverlay ==
    \A d \in DOMAIN devices : \A P \in Partials :
        LET S == devices[d].state
            after == updateDeviceState(d, P)
            N == after[d].state
        IN /\ DOMAIN after = DOMAIN devices
           /\ \A x \in DOMAIN devices \ {d} : after[x] = devices[x]
           /\ DOMAIN N = DOMAIN S \cup DOMAIN P
           /\ \A a \in DOMAIN N : N[a] = IF a \in DOMAIN P THEN P[a] ELSE S[a]

C15_Witness ==
    /\ obs.ret.op = "updateDeviceState" /\ obs.ret.dev = "plug" /\ obs.ret.wrote
    /\ "plug" \in DOMAIN devices
    /\ DOMAIN devices["plug"].state = {"state", "brightness"}
    /\ devices["plug"].state["state"] = "OFF"

\* C16: every updateDeviceState on a device of the directory emits exactly one
\* STATE_CHANGE event, and the state it carries is the whole merged state now
\* cached for the device, the attributes kept from before included.
C16_StateChangeCarriesFullState ==
    [][ (obs'.ret.op = "updateDeviceState" /\ obs'.ret.dev \in DOMAIN devices)
        => LET d == obs'.ret.dev IN
           /\ Len(obs'.emitted) = 1
           /\ obs'.emitted[1].name = "STATE_CHANGE"
           /\ obs'.emitted[1].dev = d
           /\ obs'.emitted[1].state = devices'[d].state
           /\ \A a \in DOMAIN devices[d].state : a \in DOMAIN obs'.emitted[1].state ]_vars

C16_Witness ==
    /\ obs.ret.op = "updateDeviceState" /\ obs.ret.dev = "plug"
    /\ Len(obs.emitted) = 1 /\ obs.emitted[1].name = "STATE_CHANGE"
    /\ DOMAIN obs.emitted[1].state = {"state", "brightness"}
    /\ obs.emitted[1].state["brightness"] = 80

\* C17: merging a partial state twice caches what merging it once caches, and
\* two partial states with no attribute in common cache the same attributes
\* in either order; {state: ON} then {brightness: 80} caches both.
C17_MergeIdempotentCommutative ==
    \A d \in DOMAIN devices : \A P \in Partials, Q \in Partials :
        LET S == devices[d].state IN
        /\ Overlay(Overlay(S, P), P) = Overlay(S, P)
        /\ DOMAIN P \cap DOMAIN Q = {}
             => Overlay(Overlay(S, P), Q) = Overlay(Overlay(S, Q), P)
        /\ ("state" \in DOMAIN P /\ "brightness" \in DOMAIN Q)
             => /\ "state" \in DOMAIN Overlay(Overlay(S, P), Q)
                /\ Overlay(Overlay(S, P), Q)["state"] = P["state"]
                /\ Overlay(Overlay(S, P), Q)["brightness"] = Q["brightness"]

C17_Witness ==
    /\ obs.ret.op = "updateDeviceState" /\ obs.ret.dev = "sens" /\ obs.ret.wrote
    /\ "sens" \in DOMAIN devices
    /\ DOMAIN devices["sens"].state = {"state", "brightness"}
    /\ devices["sens"].state["state"] = "ON" /\ devices["sens"].state["brightness"] = 80

\* the commands a turnOnLight can issue, in the order the contract gives them
CommandRank(cmd) ==
    CASE cmd = "state" -> 1 [] cmd = "brightness" -> 2
      [] cmd = "color_temp" -> 3 [] cmd = "color" -> 4

\* the options ask for the command: On always, the others when their option
\* is present (a color, when it carries a representation)
Requested(options, cmd) ==
    \/ cmd = "state"
    \/ cmd = "brightness" /\ options.brightness # Undefined
    \/ cmd = "color_temp" /\ options.color_temp # Undefined
    \/ /\ cmd = "color" /\ options.color.present
       /\ \/ options.color.hex # ""
          \/ options.color.rgb
          \/ options.color.hue # Undefined /\ options.color.saturation # Undefined

LightCommands == {"state", "brightness", "color_temp", "color"}

\* C18: every command a turnOnLight issues is On or one its options ask for,
\* it is issued when exactly the requested commands that come before it (On,
\* brightness, color temperature, color) have been issued and have completed,
\* and a turnOnLight that returns has issued the requested commands and no other.
C18_TurnOnLightInOrder ==
    [][ \A t \in tasks \ tasks' :
          /\ (t.op = "turnOnLight" /\ t.pc = "awaitDefinition" /\ obs'.sent # << >>)
               => /\ Len(obs'.sent) = 1
                  /\ obs'.sent[1].cmd = t.cmd
                  /\ Requested(t.opts, t.cmd)
                  /\ t.cmds = Cardinality({c \in LightCommands :
                                   /\ CommandRank(c) < CommandRank(t.cmd)
                                   /\ Requested(t.opts, c)})
                  /\ \A u \in tasks' \ tasks : u.pc = "awaitConvert" /\ u.cmds = t.cmds + 1
          /\ (t.op = "turnOnLight" /\ obs'.ret.op = "turnOnLight" /\ ~obs'.ret.threw)
               => obs'.ret.cmds = Cardinality({c \in LightCommands : Requested(t.opts, c)})
      ]_vars

C18_Witness ==
    /\ obs.ret.op = "turnOnLight" /\ ~obs.ret.threw /\ obs.ret.dev = "bulb"
    /\ obs.ret.cmds = 4 /\ obs.ret.cmd = "color"
    /\ DOMAIN devices["bulb"].state = LightCommands

\* C19: a turnOnLight on a plug that supports On/Off only, called with a
\* brightness, whose On command succeeded, fails at the brightness sub-call
\* with an UnsupportedAction error, has issued the On command and no other,
\* and leaves exactly {state: ON} in the cache of the plug.
C19_NoRollback ==
    (/\ obs.ret.op = "turnOnLight" /\ obs.ret.threw
     /\ obs.ret.dev = "plug" /\ obs.ret.cmd = "brightness" /\ obs.ret.wrote)
        => /\ obs.ret.name = "UnsupportedActionError"
           /\ obs.ret.cmds = 1
           /\ devices["plug"].state = [a \in {"state"} |-> "ON"]

\* C20: a setColor issues at most one command; the command carries the hex
\* payload when a hex is given, else the RGB payload when an RGB triple is
\* given, else hue and saturation when both are given; with none of them the
\* call returns at once, having issued nothing and raised nothing.
C20_ColorPrecedence ==
    [][ /\ \A t \in tasks \ tasks' :
             (t.op = "setColor" /\ t.pc = "awaitDefinition" /\ obs'.sent # << >>)
               => LET color == t.opts.color IN
                  /\ Len(obs'.sent) = 1 /\ t.cmds = 0
                  /\ obs'.sent[1].cmd = "color"
                  /\ color.hex # "" => obs'.sent[1].sval = "hex"
                  /\ (color.hex = "" /\ color.rgb) => obs'.sent[1].sval = "rgb"
                  /\ (color.hex = "" /\ ~color.rgb)
                       => /\ obs'.sent[1].sval = "hue_saturation"
                          /\ color.hue # Undefined /\ color.saturation # Undefined
        /\ obs'.ret.op = "setColor"
             => LET color == obs'.ret.opts.color IN
                /\ obs'.ret.cmds <= 1
                /\ (color.hex = "" /\ ~color.rgb
                      /\ (color.hue = Undefined \/ color.saturation = Undefined))
                     => /\ ~obs'.ret.threw /\ obs'.ret.cmds = 0
                        /\ obs'.sent = << >> /\ tasks' = tasks
                        /\ devices' = devices
      ]_vars

C20_Witness ==
    /\ obs.ret.op = "setColor" /\ ~obs.ret.threw /\ obs.ret.dev = "bulb"
    /\ obs.ret.opts.color.hex # "" /\ obs.ret.opts.color.rgb
    /\ obs.ret.cmds = 1 /\ obs.ret.wrote
    /\ devices["bulb"].state["color"] = "hex"

\* r is n / d rounded to the nearest integer, halves upwards (d > 0)
IsRounded(r, n, d) == 2 * d * r - d <= 2 * n /\ 2 * n < 2 * d * r + d

\* C21: a setBrightness(p) issues one brightness command, whose value is
\* p / 100 * 254 rounded and then clamped to 0..254, for p outside 0..100 too:
\* -10 gives 0 and 150 gives 254; the call does not fail on account of p.
C21_BrightnessScaledAndClamped ==
    [][ /\ \A t \in tasks \ tasks' :
             (t.op = "setBrightness" /\ t.pc = "awaitDefinition")
               => LET p == t.opts.brightness IN
                  /\ Len(obs'.sent) = 1 /\ t.cmds = 0
                  /\ obs'.sent[1].cmd = "brightness"
                  /\ \E r \in -30 .. 390 :
                        /\ IsRounded(r, 254 * p, 100)
                        /\ obs'.sent[1].val = IF r < 0 THEN 0 ELSE IF r > 254 THEN 254 ELSE r
                  /\ p = 0 - 10 => obs'.sent[1].val = 0
                  /\ p = 150 => obs'.sent[1].val = 254
        /\ (obs'.ret.op = "setBrightness" /\ obs'.ret.threw)
             => obs'.ret.cmds = 1 /\ obs'.ret.msg = "transport"
      ]_vars

C21_Witness ==
    /\ obs.ret.op = "setBrightness" /\ ~obs.ret.threw /\ obs.ret.opts.brightness = 0 - 10
    /\ obs.ret.cmds = 1 /\ obs.ret.wrote
    /\ devices["bulb"].state["brightness"] = 0

\* C22: a setColorTemperature(v) issues v itself when v <= 500 and
\* 1000000 / v rounded when v > 500: 4000 and 250 both issue 250, 500 issues 500.
C22_ColorTempConversion ==
    [][ \A t \in tasks \ tasks' :
          (t.op = "setColorTemperature" /\ t.pc = "awaitDefinition")
            => LET v == t.opts.color_temp IN
               /\ Len(obs'.sent) = 1 /\ obs'.sent[1].cmd = "color_temp"
               /\ v <= 500 => obs'.sent[1].val = v
               /\ v > 500 => IsRounded(obs'.sent[1].val, 1000000, v)
               /\ v \in {250, 4000} => obs'.sent[1].val = 250
               /\ v = 500 => obs'.sent[1].val = 500
      ]_vars

C22_Witness ==
    /\ obs.ret.op = "setColorTemperature" /\ ~obs.ret.threw
    /\ obs.ret.opts.color_temp = 4000 /\ obs.ret.wrote
    /\ devices["bulb"].state["color_temp"] = 250

\* C23, as stated: an input below 500 is forwarded unchanged and every other
\* input, 500 included, is converted from Kelvin, so that 500 issues 2000.
C23_ThresholdExclusive ==
    [][ \A t \in tasks \ tasks' :
          (t.op = "setColorTemperature" /\ t.pc = "awaitDefinition" /\ obs'.sent # << >>)
            => LET v == t.opts.color_temp IN
               /\ v < 500 => obs'.sent[1].val = v
               /\ v >= 500 => IsRounded(obs'.sent[1].val, 1000000, v)
               /\ v = 500 => obs'.sent[1].val = 2000
      ]_vars

\* C23, amended: an input up to and including 500 is taken for mireds and
\* forwarded unchanged, so that 500 issues 500; an input above 500 is taken
\* for Kelvin, and the value issued times the input is within half the input
\* of 1000000.
C23_ThresholdInclusive ==
    [][ \A t \in tasks \ tasks' :
          (t.op = "setColorTemperature" /\ t.pc = "awaitDefinition" /\ obs'.sent # << >>)
            => LET v == t.opts.color_temp
                   m == obs'.sent[1].val
               IN
               /\ v \in {499, 500} => m = v
               /\ v < 500 => m = v
               /\ v > 500 => /\ m # v
                             /\ 2 * (m * v - 1000000) <= v
                             /\ 2 * (1000000 - m * v) <= v
      ]_vars

C23_Witness ==
    /\ obs.ret.op = "setColorTemperature" /\ ~obs.ret.threw
    /\ obs.ret.opts.color_temp = 500 /\ obs.ret.wrote
    /\ devices["bulb"].state["color_temp"] = 500

\* the keys of ZigbeeDeviceState whose read was answered, in a log of answers
AnsweredKeys(answers) ==
    { ReadAttribute(answers[i].cluster) :
        i \in { j \in DOMAIN answers : answers[j].answer = "ok" } }

\* C24: readState does not fail on account of failed reads. Whatever the
\* three reads were answered, the call returns a state holding exactly the
\* attributes whose read succeeded, with the values read (only On/Off
\* answered: the key state alone), and that state is merged into the cache of
\* the device in the very step that returns it, the other cached keys kept.
C24_ReadStatePartial ==
    [][ /\ \A t \in tasks \ tasks' :
             (t.op = "readState" /\ t.pc = "awaitRead" /\ Len(t.rest) = 1)
               => obs'.ret.op = "readState" /\ ~obs'.ret.threw
        /\ obs'.ret.op = "readState" =>
             LET r == obs'.ret IN
             /\ r.threw => r.answers = << >>
             /\ ~r.threw =>
                  /\ Len(r.answers) = 3
                  /\ DOMAIN r.result = AnsweredKeys(r.answers)
                  /\ \A i \in DOMAIN r.answers :
                        r.answers[i].answer = "ok" =>
                          r.result[ReadAttribute(r.answers[i].cluster)] =
                            IF r.answers[i].cluster = "genOnOff"
                            THEN (IF r.answers[i].raw = 1 THEN "ON" ELSE "OFF")
                            ELSE r.answers[i].raw
                  /\ (r.answers[1].answer = "ok" /\ r.answers[2].answer # "ok"
                        /\ r.answers[3].answer # "ok") => DOMAIN r.result = {"state"}
                  /\ r.dev \in DOMAIN devices =>
                        /\ r.dev \in DOMAIN devices'
                        /\ DOMAIN devices'[r.dev].state =
                              DOMAIN devices[r.dev].state \cup DOMAIN r.result
                        /\ \A a \in DOMAIN devices'[r.dev].state :
                              devices'[r.dev].state[a] =
                                IF a \in DOMAIN r.result THEN r.result[a]
                                ELSE devices[r.dev].state[a]
      ]_vars

C24_Witness ==
    /\ obs.ret.op = "readState" /\ ~obs.ret.threw /\ obs.ret.dev = "plug"
    /\ obs.ret.answers[1].answer = "ok" /\ obs.ret.answers[2].answer = "unsupported"
    /\ obs.ret.answers[3].answer = "timeout"
    /\ DOMAIN obs.ret.result = {"state"} /\ obs.ret.result["state"] = "OFF"
    /\ DOMAIN devices["plug"].state = {"state", "brightness"}
    /\ devices["plug"].state["state"] = "OFF"

\* C25: a readState one of whose reads timed out fails with TransportTimeout
\* and leaves no trace: the directory and the cache are as before the step
\* that ends the call, and no STATE_CHANGE event is emitted.
C25_TimeoutFailsWithoutEffect ==
    [][ (/\ obs'.ret.op = "readState"
         /\ \E i \in DOMAIN obs'.ret.answers : obs'.ret.answers[i].answer = "timeout")
          => /\ obs'.ret.threw /\ obs'.ret.name = "TransportTimeout"
             /\ devices' = devices
             /\ \A i \in DOMAIN obs'.emitted : obs'.emitted[i].name # "STATE_CHANGE"
      ]_vars

\* C26: a device whose interview is not complete takes no intent: no
\* low-level command is issued to it, and an intent dispatched on one that has
\* a catalog definition and an endpoint fails with CapabilityUnknown.
C26_NotInterviewedExcluded ==
    /\ \A i \in DOMAIN obs.sent :
          obs.sent[i].kind = "command" => HerdsmanInterviewed(obs.sent[i].dev)
    /\ (/\ obs.ret.op \in {"sendCommand", "sendOnOff"}
        /\ obs.ret.dev \in store /\ ~HerdsmanInterviewed(obs.ret.dev)
        /\ FindByDevice(obs.ret.dev).found /\ HerdsmanEndpoints(obs.ret.dev) # << >>)
         => obs.ret.threw /\ obs.ret.name = "CapabilityUnknown" /\ obs.ret.cmds = 0

\* the kind of a catalog entry taken as a whole: light if any expose is a
\* light, else plug if any is a switch or is named power, else unknown
KindOfEntry(definition) ==
    LET ex == definition.exposes IN
    IF ~definition.found THEN "unknown"
    ELSE IF \E i \in DOMAIN ex : ex[i].type = "light" THEN "light"
    ELSE IF \E i \in DOMAIN ex : ex[i].type = "switch" \/ ex[i].name = "power" THEN "plug"
    ELSE "unknown"

\* C27: the kind of every directory entry is the kind of its catalog entry
\* taken as a whole: light wherever the light appears among the exposes, else
\* plug for a switch or a power attribute, else unknown (no entry: unknown).
C27_KindByWholeEntry ==
    \A d \in DOMAIN devices : devices[d].type = KindOfEntry(FindByDevice(d))

\* the endpoint the On/Off family is to address: the first that receives the
\* On/Off cluster, else the first that sends it, 0 for none
OnOffEndpointOf(d) ==
    LET eps == HerdsmanEndpoints(d)
        ins == { i \in DOMAIN eps : CLUSTER_ON_OFF \in eps[i].inputClusters }
        outs == { i \in DOMAIN eps : CLUSTER_ON_OFF \in eps[i].outputClusters }
        first(S) == CHOOSE i \in S : \A j \in S : i <= j
    IN
    IF ins # {} THEN eps[first(ins)].ID
    ELSE IF outs # {} THEN eps[first(outs)].ID
    ELSE 0

\* C28: an on / off / toggle is issued as exactly one command with an empty
\* payload to the endpoint that receives On/Off, else to the one that sends
\* it; on a device with no such endpoint the call fails with UnsupportedAction
\* and issues nothing.
C28_OnOffEndpoint ==
    /\ \A i \in DOMAIN obs.sent :
          (obs.sent[i].kind = "command" /\ obs.sent[i].cmd \in {"state", "genOnOff"})
            => /\ Len(obs.sent) = 1
               /\ obs.sent[i].ep = OnOffEndpointOf(obs.sent[i].dev)
               /\ obs.sent[i].ep # 0
               /\ obs.sent[i].val = 0
    /\ (/\ obs.ret.op \in {"sendCommand", "sendOnOff"}
        /\ obs.ret.dev \in store /\ OnOffEndpointOf(obs.ret.dev) = 0)
         => /\ obs.ret.threw /\ obs.ret.cmds = 0
            /\ obs.ret.name \in {"UnsupportedAction", "UnsupportedActionError"}

\* the devices whose departure the step just taken announced
JustLeft == { obs.emitted[i].dev :
                i \in { j \in DOMAIN obs.emitted : obs.emitted[j].name = "DEVICE_LEFT" } }

\* C29: the step that handles the leave notification of X deletes the
\* directory entry of X, cached state included, leaves the other entries as
\* they were and emits exactly one event, DEVICE_LEFT carrying X; a
\* getDevice(X) made right after it finds nothing and a getDevices() made
\* right after it does not list X.
C29_LeaveRemoves ==
    [][ /\ \A d \in store \ store' :
             /\ d \notin DOMAIN devices'
             /\ \A e \in DOMAIN devices \ {d} :
                   e \in DOMAIN devices' /\ devices'[e] = devices[e]
             /\ Len(obs'.emitted) = 1
             /\ obs'.emitted[1].name = "DEVICE_LEFT" /\ obs'.emitted[1].dev = d
        /\ \A d \in JustLeft :
             /\ (obs'.ret.op = "getDevice" /\ obs'.ret.dev = d)
                  => obs'.ret.msg = "undefined" /\ obs'.ret.list = {}
             /\ obs'.ret.op = "getDevices" => d \notin obs'.ret.list
      ]_vars

C29_Witness ==
    /\ obs.ret.op = "getDevice" /\ obs.ret.dev = "plug" /\ obs.ret.msg = "undefined"
    /\ "plug" \notin store /\ "plug" \notin DOMAIN devices

\* C30: the coordinator's own record is never in the directory, and no
\* listing returned to a caller (getDevices of the service, listDevices of
\* the CLI) contains it, however the devices came in: loaded at start,
\* joined, announced or interviewed.
C30_ListingExcludesCoordinator ==
    /\ \A d \in DOMAIN devices : HerdsmanType(d) # "Coordinator"
    /\ obs.ret.op \in {"getDevices", "listDevices"}
         => \A d \in obs.ret.list : HerdsmanType(d) # "Coordinator"

C30_Witness ==
    /\ obs.ret.op = "getDevices" /\ obs.ret.list = {"plug", "sens"}
    /\ Coordinator \in store

\* C31: the lookup of one device by an identity that is not in the directory
\* fails with DeviceNotFound instead of returning nothing.
C31_AbsentLookupFails ==
    (/\ obs.ret.op \in {"getDevice", "findDevice"}
     /\ obs.ret.dev \notin (IF app = "service" THEN DOMAIN devices ELSE store))
      => /\ obs.ret.threw
         /\ obs.ret.name \in {"DeviceNotFound", "DeviceNotFoundError"}

\* the attributes the call that just returned has merged into the cache
JustMerged ==
    IF obs.ret.op = "sendCommand" /\ obs.ret.wrote THEN {obs.ret.cmd}
    ELSE IF obs.ret.op = "readState" /\ obs.ret.wrote THEN DOMAIN obs.ret.result
    ELSE {}

\* C32: when a command's result has been merged into the cache of a device
\* while an announce handler of the same device was waiting for its
\* mapDevice, the attributes merged are still cached after whatever step
\* comes next, the completion of that handler included.
C32_NoLostUpdate ==
    [][ (\E t \in tasks : t.op \in UpsertOps /\ t.pc = "awaitMap" /\ t.dev = obs.ret.dev)
          => \A a \in JustMerged :
               /\ obs.ret.dev \in DOMAIN devices'
               /\ a \in DOMAIN devices'[obs.ret.dev].state
      ]_vars

\* the raw value behind attribute a in a log of answers, -1 if no read gave it
RawOf(answers, a) ==
    LET hits == { i \in DOMAIN answers :
                    answers[i].answer = "ok" /\ a \in PowerAttributes(answers[i].cluster) }
    IN
    IF hits = {} THEN 0 - 1
    ELSE LET raw == answers[CHOOSE i \in hits : TRUE].raw IN
         CASE a = "power"   -> raw[1]
           [] a = "voltage" -> raw[2]
           [] a = "current" -> raw[3]
           [] a = "energy"  -> raw[1]

\* C33: readPowerConsumption makes its two reads independently: whatever the
\* two were answered the call returns, with the attributes of exactly the
\* reads that succeeded, where (values held in thousandths) power and voltage
\* are a tenth of the raw value, current a thousandth and energy a hundredth;
\* the result is merged into the cache of the device in the step that returns.
C33_PowerNormalised ==
    [][ /\ \A t \in tasks \ tasks' :
             (t.op = "readPowerConsumption" /\ t.pc = "awaitRead" /\ Len(t.rest) = 1)
               => obs'.ret.op = "readPowerConsumption" /\ ~obs'.ret.threw
        /\ obs'.ret.op = "readPowerConsumption" =>
             LET r == obs'.ret IN
             /\ r.threw => r.answers = << >>
             /\ ~r.threw =>
                  /\ Len(r.answers) = 2
                  /\ DOMAIN r.result =
                        UNION { PowerAttributes(r.answers[i].cluster) :
                                  i \in { j \in DOMAIN r.answers :
                                            r.answers[j].answer = "ok" } }
                  /\ \A a \in DOMAIN r.result :
                        CASE a = "power"   -> 10 * r.result[a] = 1000 * RawOf(r.answers, a)
                          [] a = "voltage" -> 10 * r.result[a] = 1000 * RawOf(r.answers, a)
                          [] a = "current" -> 1000 * r.result[a] = 1000 * RawOf(r.answers, a)
                          [] a = "energy"  -> 100 * r.result[a] = 1000 * RawOf(r.answers, a)
                  /\ r.dev \in DOMAIN devices =>
                        /\ r.dev \in DOMAIN devices'
                        /\ DOMAIN devices'[r.dev].state =
                              DOMAIN devices[r.dev].state \cup DOMAIN r.result
                        /\ \A a \in DOMAIN devices'[r.dev].state :
                              devices'[r.dev].state[a] =
                                IF a \in DOMAIN r.result THEN r.result[a]
                                ELSE devices[r.dev].state[a]
      ]_vars

C33_Witness ==
    /\ obs.ret.op = "readPowerConsumption" /\ ~obs.ret.threw /\ obs.ret.dev = "plug"
    /\ obs.ret.answers[1].answer = "ok" /\ obs.ret.answers[1].raw = <<1234, 2301, 457>>
    /\ obs.ret.answers[2].answer = "unsupported"
    /\ DOMAIN obs.ret.result = {"power", "voltage", "current"}
    /\ obs.ret.result["power"] = 123400 /\ obs.ret.result["voltage"] = 230100
    /\ obs.ret.result["current"] = 457
    /\ devices["plug"].state["current"] = 457 /\ "state" \in DOMAIN devices["plug"].state

\* the order in which the kinds of start failure are decided
FailureOrder == << "ENOENT", "EACCES", "EBUSY", "RSTACK" >>
FailureKind(marker) ==
    CASE marker = "ENOENT" -> "port not found"
      [] marker = "EACCES" -> "permission denied"
      [] marker = "EBUSY"  -> "port busy"
      [] marker = "RSTACK" -> "dongle never responded"

\* C34: a start() that fails throws one CoordinatorError whose kind is that of
\* the first of port-not-found, permission-denied, port-busy, no-response the
\* underlying failure matches, and the generic kind when it matches none.
C34_StartFailureClassified ==
    (obs.ret.op = "start" /\ obs.ret.threw)
      => /\ obs.ret.name = "CoordinatorError"
         /\ LET hits == { i \in DOMAIN FailureOrder : FailureOrder[i] \in obs.ret.cause } IN
            IF hits = {} THEN obs.ret.msg = "start failed"
            ELSE obs.ret.msg =
                   FailureKind(FailureOrder[CHOOSE i \in hits : \A j \in hits : i <= j])

\* C35: when the low-level command of an intent is rejected, the step that
\* handles the rejection ends the call with the very error of the transport,
\* neither wrapped nor replaced; the call has made exactly one attempt, the
\* step issues no further command and leaves nothing behind that could, and
\* the directory and its cached states are as they were.
C35_TransportFailurePropagates ==
    [][ /\ \A t \in tasks \ tasks' :
             (t.op \in {"sendCommand", "sendOnOff"} /\ t.pc \in {"awaitConvert", "awaitCommand"})
               => /\ obs'.ret.op = t.op /\ obs'.ret.dev = t.dev
                  /\ obs'.sent = << >>
                  /\ tasks' = tasks \ {t}
                  /\ obs'.ret.threw =>
                       /\ obs'.ret.cmds = 1
                       /\ obs'.ret.name = "Error"
                       /\ obs'.ret.cause = {obs'.ret.msg}
                       /\ obs'.ret.msg \in TransportErrors
                       /\ devices' = devices
                       /\ obs'.emitted = << >>
        /\ \A i \in DOMAIN obs'.sent :
             obs'.sent[i].kind = "command"
               => \A t \in tasks' :
                    (t.dev = obs'.sent[i].dev /\ t.op \in {"sendCommand", "sendOnOff"})
                      => t.cmds <= 1
      ]_vars

C35_Witness ==
    /\ obs.ret.op = "sendCommand" /\ obs.ret.threw /\ obs.ret.msg = "timeout"
    /\ obs.ret.cmds = 1 /\ obs.ret.dev = "plug"
    /\ "state" \in DOMAIN devices["plug"].state

\* C36: a join, announce or interview handler that completes for a device
\* which has left since the handler started, and has not joined again, does
\* not put the device back into the directory.
C36_NoReinsertAfterLeave ==
    [][ \A t \in tasks \ tasks' :
          (t.op \in UpsertOps /\ t.pc = "awaitMap" /\ t.dev \notin store)
            => t.dev \notin DOMAIN devices'
      ]_vars

\* C37: the step that ends a ZigbeeCoordinator.stop() made while running
\* leaves the coordinator not started and without controller, and returns
\* without throwing, whether controller.stop() succeeded or failed; a stop()
\* made while not running returns at once, calls nothing on the transport and
\* changes nothing, and no stop is ever sent by a coordinator not running.
C37_CliStopAlwaysStops ==
    [][ app = "cli" =>
          /\ \A t \in tasks \ tasks' :
                t.op = "stop"
                  => /\ ~started' /\ cliController' = 0
                     /\ obs'.ret.op = "stop" /\ ~obs'.ret.threw
          /\ (obs'.ret.op = "stop" /\ tasks' = tasks)
                => /\ ~CliRunning /\ ~obs'.ret.threw
                   /\ obs'.sent = << >>
                   /\ UNCHANGED <<sessions, cliVars, svcVars, store>>
          /\ \A i \in DOMAIN obs'.sent :
                obs'.sent[i].kind = "stop" => CliRunning /\ obs'.sent[i].ctrl = cliController
      ]_vars

C37_Witness ==
    /\ app = "cli" /\ obs.ret.op = "stop" /\ obs.ret.msg = "stop-error-logged"
    /\ ~started /\ cliController = 0
    /\ sessions[Len(sessions)] = "running"

\* C38: the step that ends a ZigbeeService.stop() whose controller.stop()
\* failed throws the transport's error and changes nothing of the service: it
\* is still started, on the same controller, and its directory with the
\* cached states is as it was.
C38_SvcStopFailureKeepsState ==
    [][ app = "service" =>
          \A t \in tasks \ tasks' :
            (t.op = "stop" /\ obs'.ret.threw)
              => /\ obs'.ret.op = "stop"
                 /\ obs'.ret.name = "Error" /\ obs'.ret.msg = "transport"
                 /\ isStarted /\ isStarted'
                 /\ UNCHANGED <<controller, devices, permitJoinEnabled, sessions, store>>
      ]_vars

C38_Witness ==
    /\ app = "service" /\ obs.ret.op = "stop" /\ obs.ret.threw
    /\ isStarted /\ controller # 0
    /\ DOMAIN devices = {"plug", "sens"}

C40_ListingAgreesWithDispatch ==
    [][ app = "cli" =>
          /\ (obs'.ret.op = "listDevices" /\ ~obs'.ret.threw)
                => /\ obs'.ret.list = {d \in store : HerdsmanType(d) # "Coordinator"}
                   /\ DOMAIN obs'.ret.result = obs'.ret.list
                   /\ \A d \in obs'.ret.list :
                         obs'.ret.result[d] <=> (getOnOffEndpoint(d) # 0)
          /\ (obs.ret.op = "listDevices" /\ ~obs.ret.threw)
                => /\ \A d \in obs.ret.list :
                         (obs'.ret.op = "sendOnOff" /\ obs'.ret.dev = d /\ tasks' = tasks)
                            => /\ obs'.ret.threw
                               /\ obs'.ret.name = "UnsupportedActionError"
                               /\ ~obs.ret.result[d]
                               /\ obs'.sent = << >>
                   /\ \A t \in tasks' \ tasks :
                         t.op = "sendOnOff"
                           => /\ t.dev \in obs.ret.list => obs.ret.result[t.dev]
                              /\ Len(obs'.sent) = 1
                              /\ obs'.sent[1].dev = t.dev /\ obs'.sent[1].ep # 0
        ]_vars

\* C40 witness: a listing that shows the wall switch, whose only On/Off
\* cluster is an output cluster, as controllable, the plug as controllable and
\* the sensor as not
C40_Witness ==
    /\ app = "cli" /\ obs.ret.op = "listDevices" /\ ~obs.ret.threw
    /\ {"remote", "plug", "sens"} \subseteq obs.ret.list
    /\ obs.ret.result["remote"] /\ obs.ret.result["plug"] /\ ~obs.ret.result["sens"]

----------------------------------------------------------------------------

Init ==
    /\ app \in {"service", "cli"}
    /\ store \in {{"c0"}, {"c0", "plug", "bulb"}}
    /\ sessions = << >>
    /\ controller = 0
    /\ isStarted = FALSE
    /\ devices = << >>
    /\ permitJoinEnabled = FALSE
    /\ cliController = 0
    /\ started = FALSE
    /\ tasks = {}
    /\ obs = Quiet

Next ==
    \/ SvcStart
    \/ \E t \in tasks : SvcStartResolved(t)
    \/ \E t \in tasks : SvcStartRejected(t)
    \/ \E t \in tasks : SvcLoadStep(t)
    \/ \E t \in tasks : SvcStartFinish(t)
    \/ SvcStop
    \/ \E t \in tasks : SvcStopResolved(t)
    \/ \E t \in tasks : SvcStopRejected(t)
    \/ \E call \in PermitJoinCalls : SvcPermitJoin(call[1], call[2])
    \/ \E t \in tasks : SvcPermitJoinResolved(t)
    \/ \E t \in tasks : SvcPermitJoinRejected(t)
    \/ CliStart
    \/ \E t \in tasks : CliStartResolved(t)
    \/ \E t \in tasks : CliStartRejected(t)
    \/ CliStop
    \/ \E t \in tasks, resolved \in BOOLEAN : CliStopSettled(t, resolved)
    \/ \E seconds \in CliSeconds : CliPermitJoin(seconds)
    \/ CliDisableJoin
    \/ \E t \in tasks, resolved \in BOOLEAN : CliPermitJoinSettled(t, resolved)
    \/ \E c \in DOMAIN sessions : AdapterDisconnected(c)

Spec == Init /\ [][Next]_vars

----------------------------------------------------------------------------
(* Dispatch: the lifecycle together with the intents and the queries *)

InitDispatch ==
    /\ app \in {"service", "cli"}
    /\ store = {"c0", "plug", "sens"}
    /\ sessions = << >>
    /\ controller = 0
    /\ isStarted = FALSE
    /\ devices = << >>
    /\ permitJoinEnabled = FALSE
    /\ cliController = 0
    /\ started = FALSE
    /\ tasks = {}
    /\ obs = Quiet

NextDispatch ==
    \/ SvcStart
    \/ \E t \in tasks : SvcStartResolved(t)
    \/ \E t \in tasks : SvcStartRejected(t)
    \/ \E t \in tasks : SvcLoadStep(t)
    \/ SvcStop
    \/ \E t \in tasks : SvcStopResolved(t)
    \/ \E t \in tasks : SvcStopRejected(t)
    \/ \E d \in Targets, i \in SvcIntents : SvcSendCommand(d, i[1], i[2], i[3])
    \/ \E t \in tasks : SvcSendCommandConvert(t)
    \/ \E t \in tasks, hasState \in BOOLEAN : SvcSendCommandResolved(t, hasState)
    \/ \E t \in tasks : SvcSendCommandRejected(t)
    \/ CliStart
    \/ \E t \in tasks : CliStartResolved(t)
    \/ \E t \in tasks : CliStartRejected(t)
    \/ CliStop
    \/ \E t \in tasks, resolved \in BOOLEAN : CliStopSettled(t, resolved)
    \/ \E d \in Targets, action \in OnOffActions : CliSendOnOff(d, action)
    \/ \E t \in tasks, resolved \in BOOLEAN : CliSendOnOffSettled(t, resolved)
    \/ \E c \in DOMAIN sessions : AdapterDisconnected(c)

SpecDispatch == InitDispatch /\ [][NextDispatch]_vars

----------------------------------------------------------------------------
(* A running service, its directory loaded, under the Controller's notifications *)

\* the devices that join, leave, announce and report
Notifiers == {"plug", "sens"}

InitDirectory ==
    /\ app = "service"
    /\ store = {"c0", "plug"}
    /\ sessions = << "running" >>
    /\ controller = 1
    /\ isStarted = TRUE
    /\ devices = [d \in {"plug"} |-> mapDevice(d)]
    /\ permitJoinEnabled = FALSE
    /\ cliController = 0
    /\ started = FALSE
    /\ tasks = {}
    /\ obs = Quiet

NextDirectory ==
    \/ \E d \in Notifiers : SvcDeviceJoined(d)
    \/ \E t \in tasks : SvcDeviceJoinedMapped(t)
    \/ \E d \in Notifiers : SvcDeviceLeave(d)
    \/ \E d \in Notifiers, status \in InterviewStatus : SvcDeviceInterview(d, status)
    \/ \E t \in tasks : SvcDeviceInterviewMapped(t)
    \/ \E t \in tasks : SvcDeviceInterviewEmit(t)
    \/ \E d \in Notifiers : SvcDeviceAnnounce(d)
    \/ \E t \in tasks : SvcDeviceAnnounceMapped(t)
    \/ \E d \in Notifiers : SvcMessage(d)
    \/ \E d \in Notifiers, state \in Partials : SvcUpdateDeviceState(d, state)

SpecDirectory == InitDirectory /\ [][NextDirectory]_vars

----------------------------------------------------------------------------
(* A running service, its directory loaded, under turnOnLight and setColor *)

InitLight ==
    /\ app = "service"
    /\ store = {"c0", "plug", "bulb"}
    /\ sessions = << "running" >>
    /\ controller = 1
    /\ isStarted = TRUE
    /\ devices = [d \in {"plug", "bulb"} |-> mapDevice(d)]
    /\ permitJoinEnabled = FALSE
    /\ cliController = 0
    /\ started = FALSE
    /\ tasks = {}
    /\ obs = Quiet

NextLight ==
    \/ \E d \in LightTargets, options \in LightOptions : SvcTurnOnLight(d, options)
    \/ \E t \in tasks : SvcIntentConvert(t)
    \/ \E t \in tasks, hasState \in BOOLEAN : SvcIntentResolved(t, hasState)
    \/ \E t \in tasks : SvcIntentRejected(t)

SpecLight == InitLight /\ [][NextLight]_vars

----------------------------------------------------------------------------
(* The same service under setColor *)

NextColor ==
    \/ \E d \in LightTargets, color \in Colors : SvcSetColor(d, color)
    \/ \E t \in tasks : SvcIntentConvert(t)
    \/ \E t \in tasks, hasState \in BOOLEAN : SvcIntentResolved(t, hasState)
    \/ \E t \in tasks : SvcIntentRejected(t)

SpecColor == InitLight /\ [][NextColor]_vars

----------------------------------------------------------------------------
(* The same service under setBrightness and setColorTemperature on the bulb *)

NextNumeric ==
    \/ \E p \in BrightnessInputs : SvcSetBrightness("bulb", p)
    \/ \E v \in ColorTempInputs : SvcSetColorTemperature("bulb", v)
    \/ \E t \in tasks : SvcIntentConvert(t)
    \/ \E t \in tasks, hasState \in BOOLEAN : SvcIntentResolved(t, hasState)
    \/ \E t \in tasks : SvcIntentRejected(t)

SpecNumeric == InitLight /\ [][NextNumeric]_vars

----------------------------------------------------------------------------
(* The same service under readState, its cache written meanwhile *)

NextRead ==
    \/ \E d \in ReadTargets : SvcReadState(d)
    \/ \E t \in tasks, answer \in ReadAnswers, raw \in {0, 1, 128, 370} :
          SvcReadStateAnswered(t, answer, raw)
    \/ \E state \in Partials : SvcUpdateDeviceState("plug", state)

SpecRead == InitLight /\ [][NextRead]_vars

----------------------------------------------------------------------------
(* Either stack running over a network of five devices, under the On/Off
   family and the join of a sixth *)

CatalogTargets == {"plug", "bulb", "half", "sens"}

InitCatalog ==
    /\ app \in {"service", "cli"}
    /\ store = {"c0"} \cup CatalogTargets
    /\ sessions = << "running" >>
    /\ controller = IF app = "service" THEN 1 ELSE 0
    /\ isStarted = (app = "service")
    /\ devices = IF app = "service" THEN [d \in CatalogTargets |-> mapDevice(d)] ELSE << >>
    /\ permitJoinEnabled = FALSE
    /\ cliController = IF app = "cli" THEN 1 ELSE 0
    /\ started = (app = "cli")
    /\ tasks = {}
    /\ obs = Quiet

NextCatalog ==
    \/ \E d \in CatalogTargets, i \in OnOffIntents : SvcSendCommand(d, i[1], i[2], i[3])
    \/ \E t \in tasks : SvcSendCommandConvert(t)
    \/ \E t \in tasks, hasState \in BOOLEAN : SvcSendCommandResolved(t, hasState)
    \/ \E t \in tasks : SvcSendCommandRejected(t)
    \/ \E d \in CatalogTargets, action \in OnOffActions : CliSendOnOff(d, action)
    \/ \E t \in tasks, resolved \in BOOLEAN : CliSendOnOffSettled(t, resolved)
    \/ SvcDeviceJoined("combo")
    \/ \E t \in tasks : SvcDeviceJoinedMapped(t)

SpecCatalog == InitCatalog /\ [][NextCatalog]_vars

----------------------------------------------------------------------------
(* A running service whose devices join and leave, under its queries *)

NextLeave ==
    \/ \E d \in Notifiers : SvcDeviceJoined(d)
    \/ \E t \in tasks : SvcDeviceJoinedMapped(t)
    \/ \E d \in Notifiers : SvcDeviceLeave(d)
    \/ \E d \in Notifiers, state \in Partials : SvcUpdateDeviceState(d, state)
    \/ SvcGetDevices
    \/ \E d \in Notifiers : SvcGetDevice(d)

SpecLeave == InitDirectory /\ [][NextLeave]_vars

----------------------------------------------------------------------------
(* Either stack from its start, the directory filled by the load and by the
   Controller's notifications, under the listings *)

InitListing ==
    /\ app \in {"service", "cli"}
    /\ store \in {{"c0"}, {"c0", "plug"}}
    /\ sessions = << >>
    /\ controller = 0
    /\ isStarted = FALSE
    /\ devices = << >>
    /\ permitJoinEnabled = FALSE
    /\ cliController = 0
    /\ started = FALSE
    /\ tasks = {}
    /\ obs = Quiet

NextListing ==
    \/ SvcStart
    \/ \E t \in tasks : SvcStartResolved(t)
    \/ \E t \in tasks : SvcStartRejected(t)
    \/ \E t \in tasks : SvcLoadStep(t)
    \/ \E t \in tasks : SvcStartFinish(t)
    \/ SvcDeviceJoined("sens")
    \/ \E t \in tasks : SvcDeviceJoinedMapped(t)
    \/ \E d \in Notifiers : SvcDeviceInterview(d, "successful")
    \/ \E t \in tasks : SvcDeviceInterviewMapped(t)
    \/ \E t \in tasks : SvcDeviceInterviewEmit(t)
    \/ \E d \in Notifiers : SvcDeviceAnnounce(d)
    \/ \E t \in tasks : SvcDeviceAnnounceMapped(t)
    \/ SvcGetDevices
    \/ CliStart
    \/ \E t \in tasks : CliStartResolved(t)
    \/ \E t \in tasks : CliStartRejected(t)
    \/ CliListDevices

SpecListing == InitListing /\ [][NextListing]_vars

----------------------------------------------------------------------------
(* The same service when the bulb announces itself while it is commanded *)

NextRace ==
    \/ SvcDeviceAnnounce("bulb")
    \/ \E t \in tasks : SvcDeviceAnnounceMapped(t)
    \/ \E i \in SvcIntents : SvcSendCommand("bulb", i[1], i[2], i[3])
    \/ \E t \in tasks : SvcSendCommandConvert(t)
    \/ \E t \in tasks, hasState \in BOOLEAN : SvcSendCommandResolved(t, hasState)
    \/ \E t \in tasks : SvcSendCommandRejected(t)

SpecRace == InitLight /\ [][NextRace]_vars

----------------------------------------------------------------------------
(* The same service under readPowerConsumption, its cache written meanwhile *)

NextPower ==
    \/ \E d \in ReadTargets : SvcReadPowerConsumption(d)
    \/ \E t \in tasks, answer \in ReadAnswers,
          raw \in PowerRawValues("haElectricalMeasurement") \cup PowerRawValues("seMetering") :
          SvcReadPowerAnswered(t, answer, raw)
    \/ \E state \in Partials : SvcUpdateDeviceState("plug", state)

SpecPower == InitLight /\ [][NextPower]_vars

----------------------------------------------------------------------------
(* Either stack, started over an adapter that fails in every way *)

NextStartFailure ==
    \/ SvcStart
    \/ \E t \in tasks : SvcStartResolved(t)
    \/ \E t \in tasks, failure \in StartFailures : SvcStartFailed(t, failure)
    \/ \E t \in tasks : SvcLoadStep(t)
    \/ CliStart
    \/ \E t \in tasks : CliStartResolved(t)
    \/ \E t \in tasks, failure \in StartFailures : CliStartFailed(t, failure)

SpecStartFailure == InitDispatch /\ [][NextStartFailure]_vars

----------------------------------------------------------------------------
(* Either stack running, its On/Off commands rejected by the transport *)

NextTransport ==
    \/ \E d \in LightTargets, i \in OnOffIntents : SvcSendCommand(d, i[1], i[2], i[3])
    \/ \E t \in tasks : SvcSendCommandConvert(t)
    \/ \E t \in tasks, hasState \in BOOLEAN : SvcSendCommandResolved(t, hasState)
    \/ \E t \in tasks, error \in TransportErrors : SvcSendCommandFailed(t, error)
    \/ \E d \in LightTargets, action \in OnOffActions : CliSendOnOff(d, action)
    \/ \E t \in tasks, resolved \in BOOLEAN, error \in TransportErrors :
          CliSendOnOffEnded(t, resolved, error)

SpecTransport == InitCatalog /\ [][NextTransport]_vars

----------------------------------------------------------------------------
(* Either stack started and stopped, over a transport whose stop may fail *)

NextStop ==
    \/ SvcStart
    \/ \E t \in tasks : SvcStartResolved(t)
    \/ \E t \in tasks : SvcLoadStep(t)
    \/ SvcStop
    \/ \E t \in tasks : SvcStopResolved(t)
    \/ \E t \in tasks : SvcStopRejected(t)
    \/ CliStart
    \/ \E t \in tasks : CliStartResolved(t)
    \/ CliStop
    \/ \E t \in tasks, resolved \in BOOLEAN : CliStopSettled(t, resolved)

SpecStop == InitDispatch /\ [][NextStop]_vars

----------------------------------------------------------------------------
(* The service's pairing flag across start, stop, adapter loss and expiry *)

InitPairing == InitDispatch /\ app = "service"

NextPairing ==
    \/ SvcStart
    \/ \E t \in tasks : SvcStartResolved(t)
    \/ \E t \in tasks : SvcLoadStep(t)
    \/ SvcStop
    \/ \E t \in tasks : SvcStopResolved(t)
    \/ \E t \in tasks : SvcStopRejected(t)
    \/ \E call \in PermitJoinCalls : SvcPermitJoin(call[1], call[2])
    \/ \E t \in tasks : SvcPermitJoinResolved(t)
    \/ \E t \in tasks : SvcPermitJoinRejected(t)
    \/ SvcIsPermitJoinEnabled
    \/ \E c \in DOMAIN sessions : SvcPermitJoinExpired(c)
    \/ \E c \in DOMAIN sessions : AdapterDisconnected(c)

SpecPairing == InitPairing /\ [][NextPairing]_vars

----------------------------------------------------------------------------
(* The CLI's control screen: a listing, then an On/Off command *)

ControlTargets == {"plug", "bulb", "sens", "remote"}

InitControl ==
    /\ app = "cli"
    /\ store = {"c0"} \cup ControlTargets
    /\ sessions = << "running" >>
    /\ controller = 0
    /\ isStarted = FALSE
    /\ devices = << >>
    /\ permitJoinEnabled = FALSE
    /\ cliController = 1
    /\ started = TRUE
    /\ tasks = {}
    /\ obs = Quiet

NextControl ==
    \/ CliListDevices
    \/ \E d \in ControlTargets \cup {"c0"}, action \in OnOffActions : CliSendOnOff(d, action)
    \/ \E t \in tasks, resolved \in BOOLEAN : CliSendOnOffSettled(t, resolved)
    \/ CliStop
    \/ \E t \in tasks, resolved \in BOOLEAN : CliStopSettled(t, resolved)

SpecControl == InitControl /\ [][NextControl]_vars

====
